---- MODULE Spec2Model ----
(***************************************************************************)
(* TranscriptionController of src/src/gui/main_window.py: the GUI thread   *)
(* that calls start_transcription / stop_transcription /                   *)
(* toggle_transcription, the thread pool that runs _transcription_thread,  *)
(* the hangover segmenter inside the loop, the delivery of results and     *)
(* _output_text with its recovery and retry.                               *)
(*                                                                         *)
(* Atomicity: one action is one stretch of code that touches the shared    *)
(* controller fields (is_transcribing, stop_event, audio_stream) at most   *)
(* in one place that another thread can tell apart; the places where the   *)
(* interleaving is visible (the two reads of audio_stream in the loop      *)
(* condition, stop() against the clearing of audio_stream, the finally     *)
(* block against start) are separate actions.                              *)
(***************************************************************************)
EXTENDS Integers, Sequences, FiniteSets, TLC

VARIABLES
    is_transcribing,      \* TranscriptionController.is_transcribing
    stop_event,           \* TranscriptionController.stop_event (threading.Event)
    audio_stream,         \* TranscriptionController.audio_stream: "none" | "stream"
    stream_active,        \* is_active() of the object audio_stream refers to
    output_method,        \* config["output"]["method"]
    capitalization_mode,  \* EnhancedCommandProcessor.capitalization_mode
    gui,                  \* position of the GUI thread inside start/stop
    gui_op,               \* history: the controller call the GUI thread made last
    queued,               \* _transcription_thread work items waiting for a pool thread
    now,                  \* wall clock in ms, as time.time() * 1000 reads it
    worker,               \* per pool thread: position and locals of _transcription_thread
    use_noise_filtering,  \* TranscriptionController.use_noise_filtering
    transcriber,          \* what the recognizer's load accessors answer
    monitor,              \* position and locals of monitor_progress, and what it emitted
    commands,             \* EnhancedCommandProcessor.commands, in insertion order
    command_pattern,      \* the phrases of the compiled alternation, in its order
    editor,               \* position of the thread inside add_command / remove_command
    proc,                 \* position and locals of one call of process()
    edits,                \* history: the calls that wrote the map after construction
    pipeline,             \* the text pipeline called with strings: the call made last
    meter,                \* AudioLevelMeter: its fields and the clock it reads
    window                \* MainWindow: what its slots and _toggle_transcription did last

vars == <<is_transcribing, stop_event, audio_stream, stream_active, output_method,
          capitalization_mode, gui, gui_op, queued, now, worker,
          use_noise_filtering, transcriber, monitor,
          commands, command_pattern, editor, proc, edits, pipeline, meter,
          window>>

ctl == <<is_transcribing, stop_event, audio_stream, stream_active>>

\* the command processor's map and the threads inside it
cmd == <<commands, command_pattern, editor, proc, edits>>

\* the model load and its monitor
load == <<transcriber, monitor>>

\* what start, stop and the loop leave alone
others == <<use_noise_filtering, load, cmd, pipeline, meter, window>>

\* the same for the calls that emit a signal or answer the window
rest == <<use_noise_filtering, load, cmd, pipeline, meter>>

(***************************************************************************)
(* Program constants and bounds                                            *)
(***************************************************************************)
\* ThreadPoolExecutor(max_workers=3)
MaxWorkers == 3

\* hangover_counter -= 20: the nominal frame length in ms
FrameMs == 20

\* config["audio"]["hangover_timeout_ms"], read once per worker
HangoverTimeoutMs == 40

\* the clock stops the model at this time
MaxTime == 100

\* work items that may wait for a free pool thread
MaxQueued == 1

\* nesting of _output_text inside itself that the model follows
MaxOutputDepth == 2

\* get_loading_progress() answers a float in [0, 1]: the model counts it in steps
\* of 1 / ProgressScale
ProgressScale == 200

\* the highest progress the model reads, in steps of 1 / ProgressScale
MaxProgress == 24

\* MODEL_LOADING notifications that the model follows
MaxEvents == 2

\* calls of add_command and remove_command that the model follows
MaxEdits == 3

\* one pool thread runs window_manager.message_loop for the life of the program
Workers == 1..(MaxWorkers - 1)

\* gaps between two frames: faster than nominal, nominal, and a stall
DtSet == {FrameMs \div 2, FrameMs, 2 * FrameMs + FrameMs \div 2}

OutputMethods == {"simulated_keypresses", "clipboard"}

\* raw_text values the recognizer returns, as sequences of words
RawTexts == {<< >>, <<"hello">>, <<"all", "caps">>, <<"no", "caps">>}

(***************************************************************************)
(* EnhancedCommandProcessor, on sequences of words                         *)
(*                                                                         *)
(* A text is the sequence of its space-separated words, an action that is  *)
(* spliced in is one word, and a phrase is a string whose words Split      *)
(* tells. The command map is the Python                                    *)
(* dict as a sequence of entries in insertion order; the compiled pattern  *)
(* \b(p1|p2|...)\b is the sequence of its alternatives, and since a word   *)
(* ends at a word boundary an alternative matches at a word exactly when   *)
(* its words stand there. The model's texts hold no sentence punctuation,  *)
(* so the spacing pass of process() changes none of them and the           *)
(* capitalization pass sees one sentence.                                  *)
(***************************************************************************)
\* the words of the model: <<lower case, first letter upper case, upper case>>
Cased == {<<"hello", "Hello", "HELLO">>, <<"plus", "Plus", "PLUS">>,
          <<"sign", "Sign", "SIGN">>, <<"all", "All", "ALL">>,
          <<"caps", "Caps", "CAPS">>, <<"no", "No", "NO">>,
          <<"on", "On", "ON">>, <<"off", "Off", "OFF">>,
          <<"tab", "Tab", "TAB">>, <<"key", "Key", "KEY">>}

\* the spellings of every word of the model, by any of its spellings
Spellings ==
    [word \in UNION {{c[1], c[2], c[3]} : c \in Cased} |->
        CHOOSE c \in Cased : word \in {c[1], c[2], c[3]}]

\* the spellings of a word; any other word (an action) has no letters in lower case
Spelling(word) ==
    IF word \in DOMAIN Spellings THEN Spellings[word] ELSE <<word, word, word>>

\* str.lower()
Lower(word) == Spelling(word)[1]

\* sentence[0].upper() + sentence[1:]
Capitalized(word) == IF word = Spelling(word)[1] THEN Spelling(word)[2] ELSE word

\* str.upper()
Upper(word) == Spelling(word)[3]

LowerText(text) == [i \in 1..Len(text) |-> Lower(text[i])]

\* the phrases of the model with their words
Worded ==
    {<<"tab key", <<"tab", "key">> >>, <<"tab", <<"tab">> >>,
     <<"all caps", <<"all", "caps">> >>, <<"no caps", <<"no", "caps">> >>,
     <<"caps on", <<"caps", "on">> >>, <<"caps off", <<"caps", "off">> >>,
     <<"plus", <<"plus">> >>, <<"plus sign", <<"plus", "sign">> >>,
     <<"sign", <<"sign">> >>, <<"hello", <<"hello">> >>,
     <<"Plus", <<"Plus">> >>, <<"Caps On", <<"Caps", "On">> >>}

\* str.split() and " ".join()
Split == [phrase \in {p[1] : p \in Worded} |-> (CHOOSE p \in Worded : p[1] = phrase)[2]]

Join(words) == CHOOSE phrase \in DOMAIN Split : Split[phrase] = words

\* phrase.lower()
Lowered == [phrase \in DOMAIN Split |-> Join(LowerText(Split[phrase]))]

LowerPhrase(phrase) == Lowered[phrase]

\* dict: key in d, d.get(k, default), d[k] = v (a known key keeps its place), del d[k]
HasKey(d, k) == \E i \in 1..Len(d) : d[i].phrase = k

DictGet(d, k, default) ==
    IF HasKey(d, k) THEN d[CHOOSE i \in 1..Len(d) : d[i].phrase = k].action ELSE default

\* DictSet that keeps the action a known key has
DictSetFirstWins(d, k, v) ==
    IF HasKey(d, k) THEN d ELSE Append(d, [phrase |-> k, action |-> v])

DictSet(d, k, v) ==
    IF HasKey(d, k)
    THEN [i \in 1..Len(d) |-> IF d[i].phrase = k THEN [phrase |-> k, action |-> v] ELSE d[i]]
    ELSE Append(d, [phrase |-> k, action |-> v])

DictDel(d, k) == SelectSeq(d, LAMBDA e : e.phrase # k)

Keys(d) == [i \in 1..Len(d) |-> d[i].phrase]

\* lines 41-42 and 251-252: for alias in aliases: self.commands[alias.lower()] = action
RECURSIVE SetAliases(_, _, _)
SetAliases(d, aliases, action) ==
    IF aliases = << >> THEN d
    ELSE SetAliases(DictSet(d, LowerPhrase(Head(aliases)), action), Tail(aliases), action)

\* lines 37-42 and 247-252: one command definition written into the map
Define(d, c) ==
    SetAliases(DictSet(d, LowerPhrase(c.phrase), c.action), c.aliases, c.action)

\* lines 34-42: the map built from the list of definitions
RECURSIVE BuildCommands(_, _)
BuildCommands(d, defs) ==
    IF defs = << >> THEN d ELSE BuildCommands(Define(d, Head(defs)), Tail(defs))

\* _get_default_commands, the entries of lines 64, 67, 68, 69, 70 and 85
DefaultCommands ==
    <<[phrase |-> "tab key", action |-> "{TAB}", aliases |-> <<"tab">>],
      [phrase |-> "all caps", action |-> "{ALLCAPS_ON}", aliases |-> << >>],
      [phrase |-> "no caps", action |-> "{ALLCAPS_OFF}", aliases |-> << >>],
      [phrase |-> "caps on", action |-> "{CAPSLOCK}", aliases |-> << >>],
      [phrase |-> "caps off", action |-> "{CAPSLOCK}", aliases |-> << >>],
      [phrase |-> "plus", action |-> "+", aliases |-> <<"plus sign">>]>>

\* _compile_patterns: the alternatives are the keys in the order of the dict; no
\* key, no pattern (None is the empty sequence)
compile_patterns(d) == Keys(d)

\* the words of phrase stand in text from position i on
PhraseAt(text, i, phrase) ==
    /\ i + Len(Split[phrase]) - 1 <= Len(text)
    /\ SubSeq(text, i, i + Len(Split[phrase]) - 1) = Split[phrase]

\* the alternation tried at position i: the first alternative that matches, 0 if none
MatchAt(pattern, text, i) ==
    IF \E k \in 1..Len(pattern) : PhraseAt(text, i, pattern[k])
    THEN CHOOSE k \in 1..Len(pattern) :
            /\ PhraseAt(text, i, pattern[k])
            /\ \A j \in 1..(k - 1) : ~PhraseAt(text, i, pattern[j])
    ELSE 0

\* finditer: the non-overlapping matches, leftmost first
RECURSIVE FindMatches(_, _, _)
FindMatches(pattern, text, i) ==
    IF i > Len(text) THEN << >>
    ELSE LET k == MatchAt(pattern, text, i)
         IN IF k # 0
            THEN <<[start |-> i, phrase |-> pattern[k]]>>
                    \o FindMatches(pattern, text, i + Len(Split[pattern[k]]))
            ELSE FindMatches(pattern, text, i + 1)

\* lines 124-139, one pass of the for loop: a sentinel sets the mode and its span
\* is deleted, any other action is spliced in (the empty action splices nothing)
ApplyMatch(d, st, match) ==
    LET action == DictGet(d, match.phrase, "")
        before == SubSeq(st.text, 1, match.start - 1)
        after == SubSeq(st.text, match.start + Len(Split[match.phrase]), Len(st.text))
    IN IF action = "{ALLCAPS_ON}" THEN [text |-> before \o after, mode |-> "all_caps"]
       ELSE IF action = "{ALLCAPS_OFF}" THEN [text |-> before \o after, mode |-> "auto"]
       ELSE [text |-> before \o (IF action = "" THEN << >> ELSE <<action>>) \o after,
             mode |-> st.mode]

\* for match in reversed(matches)
RECURSIVE ApplyMatches(_, _, _)
ApplyMatches(d, st, matches) ==
    IF matches = << >> THEN st
    ELSE ApplyMatches(d, ApplyMatch(d, st, matches[Len(matches)]),
                      SubSeq(matches, 1, Len(matches) - 1))

\* the capitalization pass: first letter of the text in auto, everything in all_caps
Capitalize(text, mode) ==
    IF text = << >> THEN text
    ELSE IF mode = "auto" THEN <<Capitalized(text[1])>> \o Tail(text)
    ELSE IF mode = "all_caps" THEN [i \in 1..Len(text) |-> Upper(text[i])]
    ELSE text

\* process(text) run without interruption on map d and pattern: [text, mode] after
\* the substitution and capitalization passes
process(d, pattern, text, mode) ==
    IF text = << >> \/ pattern = << >> THEN [text |-> text, mode |-> mode]
    ELSE LET r == ApplyMatches(d, [text |-> text, mode |-> mode],
                               FindMatches(pattern, LowerText(text), 1))
         IN [text |-> Capitalize(r.text, r.mode), mode |-> r.mode]

\* every branch of process_with_context runs process first; the code-editor and
\* word-processor branches then rewrite {ENTER}, -- and quotes, which these texts lack
process_with_context(text, mode) == process(commands, command_pattern, text, mode)

(***************************************************************************)
(* The text pipeline on strings                                            *)
(*                                                                         *)
(* process() of EnhancedCommandProcessor and of CommandProcessor character *)
(* by character: a text is a string, At reads one character of it, and     *)
(* each regular expression of the code is the scan that re.finditer,       *)
(* re.split and re.sub make with it, leftmost match first and no two       *)
(* matches overlapping.                                                    *)
(***************************************************************************)
\* text[i - 1], the empty string outside the text
At(text, i) == IF i \in 1..Len(text) THEN SubSeq(text, i, i) ELSE ""

LowerLetters == "abcdefghijklmnopqrstuvwxyz"

UpperLetters == "ABCDEFGHIJKLMNOPQRSTUVWXYZ"

Digits == "0123456789"

Chars(text) == {At(text, i) : i \in 1..Len(text)}

\* str.upper() and str.lower() of one character
ToUpper ==
    [ch \in Chars(LowerLetters) |->
        At(UpperLetters, CHOOSE i \in 1..Len(LowerLetters) : At(LowerLetters, i) = ch)]

ToLower ==
    [ch \in Chars(UpperLetters) |->
        At(LowerLetters, CHOOSE i \in 1..Len(UpperLetters) : At(UpperLetters, i) = ch)]

CharUpper(ch) == IF ch \in DOMAIN ToUpper THEN ToUpper[ch] ELSE ch

CharLower(ch) == IF ch \in DOMAIN ToLower THEN ToLower[ch] ELSE ch

\* the classes \w and \s of the regular expressions
WordChars == Chars(LowerLetters) \cup Chars(UpperLetters) \cup Chars(Digits) \cup {"_"}

Whitespace == {" ", "\n", "\t"}

IsWordChar(ch) == ch \in WordChars

IsSpace(ch) == ch \in Whitespace

\* the pieces f[lo], ..., f[hi] put together
RECURSIVE Cat(_, _, _)
Cat(f, lo, hi) ==
    IF lo > hi THEN ""
    ELSE IF lo = hi THEN f[lo]
    ELSE Cat(f, lo, (lo + hi) \div 2) \o Cat(f, (lo + hi) \div 2 + 1, hi)

\* text.lower(), text.upper()
StrLower(text) == Cat([i \in 1..Len(text) |-> CharLower(At(text, i))], 1, Len(text))

StrUpper(text) == Cat([i \in 1..Len(text) |-> CharUpper(At(text, i))], 1, Len(text))

\* text contains part
Contains(text, part) ==
    \E i \in 1..(Len(text) - Len(part) + 1) : SubSeq(text, i, i + Len(part) - 1) = part

\* \b between text[i - 2] and text[i - 1]
Boundary(text, i) == IsWordChar(At(text, i - 1)) # IsWordChar(At(text, i))

\* \b(phrase)\b matches from position i on
PhraseStands(text, i, phrase) ==
    /\ i + Len(phrase) - 1 <= Len(text)
    /\ SubSeq(text, i, i + Len(phrase) - 1) = phrase
    /\ Boundary(text, i)
    /\ Boundary(text, i + Len(phrase))

\* the alternation tried at position i: the first alternative that matches, 0 if none
TextMatchAt(pattern, text, i) ==
    IF \E k \in 1..Len(pattern) : PhraseStands(text, i, pattern[k])
    THEN CHOOSE k \in 1..Len(pattern) :
            /\ PhraseStands(text, i, pattern[k])
            /\ \A j \in 1..(k - 1) : ~PhraseStands(text, i, pattern[j])
    ELSE 0

\* the matches from position i on, leftmost first and none overlapping, where
\* found holds every position at which the alternation matches
RECURSIVE MatchesFrom(_, _, _, _)
MatchesFrom(pattern, text, found, i) ==
    IF \A j \in found : j < i THEN << >>
    ELSE LET start == CHOOSE j \in found : j >= i /\ \A h \in found : h >= i => j <= h
             phrase == pattern[TextMatchAt(pattern, text, start)]
         IN <<[start |-> start, phrase |-> phrase]>>
                \o MatchesFrom(pattern, text, found, start + Len(phrase))

\* command_pattern.finditer(text)
TextFindMatches(pattern, text) ==
    MatchesFrom(pattern, text,
                {i \in 1..Len(text) : TextMatchAt(pattern, text, i) # 0}, 1)

\* the two sentinel actions of lines 129 and 133
Sentinels == {"{ALLCAPS_ON}", "{ALLCAPS_OFF}"}

\* Splice that takes a sentinel for an action like any other
SpliceSentinelAsText(d, st, match) ==
    [text |-> SubSeq(st.text, 1, match.start - 1) \o DictGet(d, match.phrase, "")
                \o SubSeq(st.text, match.start + Len(match.phrase), Len(st.text)),
     mode |-> st.mode]

\* EnhancedCommandProcessor.process lines 124-139, one pass of the for loop
Splice(d, st, match) ==
    LET action == DictGet(d, match.phrase, "")
        before == SubSeq(st.text, 1, match.start - 1)
        after == SubSeq(st.text, match.start + Len(match.phrase), Len(st.text))
    IN IF action = "{ALLCAPS_ON}" THEN [text |-> before \o after, mode |-> "all_caps"]
       ELSE IF action = "{ALLCAPS_OFF}" THEN [text |-> before \o after, mode |-> "auto"]
       ELSE [text |-> before \o action \o after, mode |-> st.mode]

\* CommandProcessor.process lines 67-72, one pass of the for loop
SpliceAction(d, st, match) ==
    [text |-> SubSeq(st.text, 1, match.start - 1) \o DictGet(d, match.phrase, "")
                \o SubSeq(st.text, match.start + Len(match.phrase), Len(st.text)),
     mode |-> st.mode]

\* the loop taken over matches from the first to the last, the later matches moved
\* by what the earlier ones changed
RECURSIVE SpliceAllForward(_, _, _, _)
SpliceAllForward(kind, d, st, matches) ==
    IF matches = << >> THEN st
    ELSE LET next == IF kind = "enhanced" THEN Splice(d, st, matches[1])
                     ELSE SpliceAction(d, st, matches[1])
             delta == Len(next.text) - Len(st.text)
         IN SpliceAllForward(kind, d, next,
                             [i \in 1..(Len(matches) - 1) |->
                                 [matches[i + 1] EXCEPT !.start = @ + delta]])

\* for match in reversed(matches), kind telling whose loop it is
RECURSIVE SpliceAll(_, _, _, _)
SpliceAll(kind, d, st, matches) ==
    IF matches = << >> THEN st
    ELSE SpliceAll(kind, d,
                   IF kind = "enhanced" THEN Splice(d, st, matches[Len(matches)])
                   ELSE SpliceAction(d, st, matches[Len(matches)]),
                   SubSeq(matches, 1, Len(matches) - 1))

\* the run of whitespace that holds position i: where it starts, and the position
\* of the first character after it
RunStart(text, i) ==
    CHOOSE j \in 1..i :
        /\ \A h \in j..i : IsSpace(At(text, h))
        /\ ~IsSpace(At(text, j - 1))

RunEnd(text, i) ==
    CHOOSE j \in (i + 1)..(Len(text) + 1) :
        /\ \A h \in i..(j - 1) : IsSpace(At(text, h))
        /\ ~IsSpace(At(text, j))

\* the characters of [.!?]
Terminals == {".", "!", "?"}

\* position i follows a match of [.!?]\s+ : it starts a sentence of re.split
AfterDelimiter(text, i) ==
    /\ i > 1
    /\ IsSpace(At(text, i - 1))
    /\ ~IsSpace(At(text, i))
    /\ At(text, RunStart(text, i - 1) - 1) \in Terminals

\* re.split(r'([.!?]\s+)', text) and the loop over the sentences: the first
\* character of the text and the first one after every delimiter goes to upper case
CapitalizeSentences(text) ==
    Cat([i \in 1..Len(text) |->
            IF i = 1 \/ AfterDelimiter(text, i) THEN CharUpper(At(text, i))
            ELSE At(text, i)], 1, Len(text))

\* the character classes of _apply_smart_spacing
ClosingPunctuation == {".", ",", ";", ":", "!", "?", ")"}

ListPunctuation == {".", ",", ";", ":", "!", "?"}

Opening == {"(", "{", "[", "\""}

Closing == {")", "}", "]", "\""}

\* DropSpaceBefore that drops nothing
KeepSpaceBefore(text, set) == text

\* re.sub(r'\s+([set])', r'\1', text): a run of whitespace goes when a character
\* of the set follows it
DropSpaceBefore(text, set) ==
    Cat([i \in 1..Len(text) |->
            IF IsSpace(At(text, i)) /\ At(text, RunEnd(text, i)) \in set THEN ""
            ELSE At(text, i)], 1, Len(text))

\* the number of characters of [.,;:!?] that stand directly before position i
PunctuationBefore(text, i) ==
    (i - 1) - (CHOOSE j \in 0..(i - 1) :
                  /\ \A h \in (j + 1)..(i - 1) : At(text, h) \in ListPunctuation
                  /\ At(text, j) \notin ListPunctuation)

\* ([.,;:!?])([^\s)]) matches at position i: a match takes two characters, so in
\* a row of punctuation every second one starts a match
InsertsAt(text, i) ==
    /\ At(text, i) \in ListPunctuation
    /\ i + 1 <= Len(text)
    /\ ~IsSpace(At(text, i + 1))
    /\ At(text, i + 1) # ")"
    /\ PunctuationBefore(text, i) % 2 = 0

\* re.sub(r'([.,;:!?])([^\s)])', r'\1 \2', text)
InsertSpaceAfter(text) ==
    Cat([i \in 1..Len(text) |->
            IF InsertsAt(text, i) THEN At(text, i) \o " " ELSE At(text, i)], 1, Len(text))

\* re.sub(r'([set])\s+', r'\1', text): a run of whitespace goes when it follows a
\* character of the set
DropSpaceAfter(text, set) ==
    Cat([i \in 1..Len(text) |->
            IF IsSpace(At(text, i)) /\ At(text, RunStart(text, i) - 1) \in set THEN ""
            ELSE At(text, i)], 1, Len(text))

\* re.sub(r'\s{2,}', ' ', text): a run of two or more becomes one space
CollapseSpaces(text) ==
    Cat([i \in 1..Len(text) |->
            IF IsSpace(At(text, i)) /\ RunEnd(text, i) - RunStart(text, i) >= 2
            THEN (IF RunStart(text, i) = i THEN " " ELSE "")
            ELSE At(text, i)], 1, Len(text))

\* _apply_smart_spacing, lines 178-190
apply_smart_spacing(text) ==
    LET t1 == DropSpaceBefore(text, ClosingPunctuation)
        t2 == InsertSpaceAfter(t1)
        t3 == DropSpaceAfter(t2, Opening)
        t4 == DropSpaceBefore(t3, Closing)
    IN CollapseSpaces(t4)

\* EnhancedCommandProcessor.process on map d and pattern: the text returned, the
\* mode it leaves, and processed_text as it is after the for loop
EnhancedProcess(d, pattern, text, mode) ==
    IF text = "" \/ pattern = << >>
    THEN [text |-> text, mode |-> mode, processed_text |-> text]
    ELSE LET r == SpliceAll("enhanced", d, [text |-> text, mode |-> mode],
                            TextFindMatches(pattern, StrLower(text)))
             result == IF r.mode = "auto" THEN CapitalizeSentences(r.text)
                       ELSE IF r.mode = "all_caps" THEN StrUpper(r.text)
                       ELSE r.text
         IN [text |-> apply_smart_spacing(result), mode |-> r.mode,
             processed_text |-> r.text]

\* CommandProcessor.process: no sentinel, no mode, no spacing pass
CommandProcess(d, pattern, text, mode) ==
    IF text = "" \/ pattern = << >>
    THEN [text |-> text, mode |-> mode, processed_text |-> text]
    ELSE LET r == SpliceAll("basic", d, [text |-> text, mode |-> mode],
                            TextFindMatches(pattern, StrLower(text)))
         IN [text |-> CapitalizeSentences(r.text), mode |-> mode,
             processed_text |-> r.text]

\* lines 37-42 and 247-252 on strings: the writes self.commands[key] = action that
\* one definition makes, in their order
WritesOf(c) ==
    <<[phrase |-> StrLower(c.phrase), action |-> c.action]>>
        \o [i \in 1..Len(c.aliases) |->
                [phrase |-> StrLower(c.aliases[i]), action |-> c.action]]

\* the writes of the definitions defs[lo], ..., defs[hi]
RECURSIVE WritesOfAll(_, _, _)
WritesOfAll(defs, lo, hi) ==
    IF lo > hi THEN << >>
    ELSE IF lo = hi THEN WritesOf(defs[lo])
    ELSE WritesOfAll(defs, lo, (lo + hi) \div 2)
            \o WritesOfAll(defs, (lo + hi) \div 2 + 1, hi)

\* the dict after the writes: a key stands where it was written first and holds
\* what was written to it last
Written(writes) ==
    LET first == {i \in 1..Len(writes) :
                    \A j \in 1..(i - 1) : writes[j].phrase # writes[i].phrase}
        last(k) == CHOOSE i \in 1..Len(writes) :
                    /\ writes[i].phrase = k
                    /\ \A j \in (i + 1)..Len(writes) : writes[j].phrase # k
    IN [r \in 1..Cardinality(first) |->
            LET i == CHOOSE h \in first : Cardinality({j \in first : j <= h}) = r
            IN [phrase |-> writes[i].phrase, action |-> writes[last(writes[i].phrase)].action]]

\* lines 34-42: the map built from the list of definitions
BuildTextCommands(defs) == Written(WritesOfAll(defs, 1, Len(defs)))

\* add_command on a built map: the writes of lines 247-252 after those that made d
DefineText(d, c) == Written(d \o WritesOf(c))

\* a definition without aliases, and one with
Cmd(phrase, action) == [phrase |-> phrase, action |-> action, aliases |-> << >>]

CmdA(phrase, action, aliases) == [phrase |-> phrase, action |-> action, aliases |-> aliases]

\* _get_default_commands, lines 56-88
EnhancedDefaults ==
    <<CmdA("period", ".", <<"full stop", "dot">>),
      Cmd("comma", ","),
      Cmd("question mark", "?"),
      CmdA("exclamation point", "!", <<"exclamation mark">>),
      Cmd("colon", ":"),
      Cmd("semicolon", ";"),
      Cmd("new line", "{ENTER}"),
      Cmd("new paragraph", "{ENTER}{ENTER}"),
      CmdA("tab key", "{TAB}", <<"tab">>),
      Cmd("space", " "),
      Cmd("control enter", "{CTRL+ENTER}"),
      Cmd("all caps", "{ALLCAPS_ON}"),
      Cmd("no caps", "{ALLCAPS_OFF}"),
      Cmd("caps on", "{CAPSLOCK}"),
      Cmd("caps off", "{CAPSLOCK}"),
      CmdA("open parenthesis", "(", <<"left parenthesis">>),
      CmdA("close parenthesis", ")", <<"right parenthesis">>),
      CmdA("open bracket", "[", <<"left bracket">>),
      CmdA("close bracket", "]", <<"right bracket">>),
      CmdA("open brace", "{", <<"left brace">>),
      CmdA("close brace", "}", <<"right brace">>),
      CmdA("quote", "\"", <<"double quote">>),
      Cmd("single quote", "'"),
      Cmd("backslash", "\\"),
      CmdA("forward slash", "/", <<"slash">>),
      Cmd("delete", "{DELETE}"),
      Cmd("backspace", "{BACKSPACE}"),
      Cmd("underscore", "_"),
      CmdA("hyphen", "-", <<"dash">>),
      CmdA("plus", "+", <<"plus sign">>),
      CmdA("equals", "=", <<"equal sign">>),
      CmdA("at sign", "@", <<"at">>),
      CmdA("hash", "#", <<"pound", "number sign">>)>>

\* CommandProcessor.__init__, lines 18-29
CommandDefaults ==
    <<Cmd("period", "."),
      Cmd("comma", ","),
      Cmd("question mark", "?"),
      Cmd("exclamation point", "!"),
      Cmd("new line", "{ENTER}"),
      Cmd("new paragraph", "{ENTER}{ENTER}"),
      Cmd("space", " "),
      Cmd("control enter", "{CTRL+ENTER}"),
      Cmd("all caps", "{CAPSLOCK}"),
      Cmd("caps lock", "{CAPSLOCK}")>>

\* the maps the two constructors build
EnhancedCommands == BuildTextCommands(EnhancedDefaults)

CommandCommands == BuildTextCommands(CommandDefaults)

(***************************************************************************)
(* The segmenter of _transcription_thread                                  *)
(***************************************************************************)
\* EndOfSpeech with "or" written for "and"
EndOfSpeechEither(hangover_counter, silence_time) ==
    hangover_counter <= 0 \/ silence_time > HangoverTimeoutMs

\* EndOfSpeech without the test of hangover_counter
EndOfSpeechBySilence(hangover_counter, silence_time) ==
    silence_time > HangoverTimeoutMs

\* EndOfSpeech with ">=" written for ">"
EndOfSpeechAtTimeout(hangover_counter, silence_time) ==
    hangover_counter <= 0 /\ silence_time >= HangoverTimeoutMs

\* line 294: if hangover_counter <= 0 and silence_time > hangover_timeout_ms
EndOfSpeech(hangover_counter, silence_time) ==
    hangover_counter <= 0 /\ silence_time > HangoverTimeoutMs

\* lines 285-296: the locals after one frame with VAD flag is_speech read at
\* current_time (silence_time is used only on the line after the one that sets
\* it, so it is the LET variable st and no field of the locals)
SegStep(s, is_speech, current_time) ==
    IF is_speech
    THEN [s EXCEPT !.speech_detected = TRUE,
                   !.hangover_counter = HangoverTimeoutMs,
                   !.last_speech_time = current_time]
    ELSE IF s.speech_detected
    THEN LET hc == s.hangover_counter - FrameMs
             st == current_time - s.last_speech_time
         IN [s EXCEPT !.hangover_counter = hc,
                      !.speech_detected = ~EndOfSpeech(hc, st)]
    ELSE s

\* the local result while no result of the recognizer is held: it is read only
\* after the recognizer assigned it
NoResult == [raw_text |-> << >>, processed_text |-> << >>, is_final |-> FALSE]

\* the locals as _transcription_thread sets them before the loop
FreshLocals ==
    [pc |-> "cond", speech_detected |-> FALSE, hangover_counter |-> 0,
     last_speech_time |-> 0,
     text |-> << >>, cancelled |-> FALSE, iter_log |-> << >>, out_log |-> << >>,
     result |-> NoResult, behind |-> {}, overtaken |-> FALSE]

IdleWorker == [FreshLocals EXCEPT !.pc = "idle"]

\* the phrases that a definition of the model can name, in lower case
Phrases == {LowerPhrase(phrase) : phrase \in DOMAIN Split}

\* the phrases that definition c names
Mentions(c) ==
    {LowerPhrase(c.phrase)} \cup {LowerPhrase(c.aliases[i]) : i \in 1..Len(c.aliases)}

\* the calls of the constructor that wrote the map; the history tells those of
\* add_command and remove_command that wrote it since
Constructed ==
    [i \in 1..Len(DefaultCommands) |-> [op |-> "add", command |-> DefaultCommands[i]]]

\* after a definition every phrase it names has its action, and its phrase (no alias
\* of it) is a declared primary phrase; a removal takes the phrase away
Noted(l, e) ==
    IF e.op = "add"
    THEN [q \in Phrases |-> IF q \in Mentions(e.command) THEN e.command.action ELSE l[q]]
    ELSE [l EXCEPT ![LowerPhrase(e.command.phrase)] = "none"]

Declared(ps, e) ==
    IF e.op = "add"
    THEN (ps \ Mentions(e.command)) \cup {LowerPhrase(e.command.phrase)}
    ELSE ps \ {LowerPhrase(e.command.phrase)}

RECURSIVE NotedAll(_, _)
NotedAll(l, es) == IF es = << >> THEN l ELSE NotedAll(Noted(l, Head(es)), Tail(es))

RECURSIVE DeclaredAll(_, _)
DeclaredAll(ps, es) ==
    IF es = << >> THEN ps ELSE DeclaredAll(Declared(ps, Head(es)), Tail(es))

\* per phrase, the action of the definition that named it last, "none" when no
\* definition names it or it was removed since
ConstructedLatest == NotedAll([q \in Phrases |-> "none"], Constructed)

latest == NotedAll(ConstructedLatest, edits)

\* the phrases last declared as a primary phrase
ConstructedPrimaries == DeclaredAll({}, Constructed)

primaries == DeclaredAll(ConstructedPrimaries, edits)

\* no call of process() is under way
IdleProc == [pc |-> "idle", text |-> << >>, pattern |-> << >>, found |-> << >>,
             matches |-> << >>, processed_text |-> << >>, resolved |-> << >>]

\* monitor_progress has returned
MonitorDone == [pc |-> "done", last_progress |-> 0, events |-> << >>, raised |-> FALSE]

\* the controller after __init__ and initialize(), no session started
InitController ==
    /\ is_transcribing = FALSE
    /\ stop_event = FALSE
    /\ audio_stream = "none"
    /\ stream_active = FALSE
    /\ output_method \in OutputMethods
    /\ gui = "idle"
    /\ gui_op = [name |-> "none", seq |-> 0, prev |-> "none", returned_at_guard |-> FALSE]
    /\ queued = 0
    /\ now = 0
    /\ use_noise_filtering = TRUE

\* EnhancedCommandProcessor.__init__ on the default commands
InitCommands ==
    /\ commands = BuildCommands(<< >>, DefaultCommands)
    /\ command_pattern = compile_patterns(BuildCommands(<< >>, DefaultCommands))
    /\ capitalization_mode = "auto"
    /\ editor = [pc |-> "idle", calls |-> 0]
    /\ proc = IdleProc
    /\ edits = << >>

\* no call of the pipeline on a string is followed, and the window that holds the
\* level meter is not built
NoPipeline == [pc |-> "none"]

NoMeter == [built |-> FALSE]

\* no window is connected to the controller's signals
NoWindow == [built |-> FALSE]

InitRest ==
    /\ pipeline = NoPipeline
    /\ meter = NoMeter
    /\ window = NoWindow

\* the model is loaded and the monitor has reported it and returned
Init ==
    /\ InitController
    /\ InitCommands
    /\ InitRest
    /\ transcriber = "loaded"
    /\ monitor = MonitorDone
    /\ worker = [w \in Workers |-> IdleWorker]

(***************************************************************************)
(* The signals of the controller and the slots of MainWindow               *)
(*                                                                         *)
(* window is a history of the last thing the window did: a call of         *)
(* _toggle_transcription with what the controller answered, or a slot      *)
(* with the dict it received and what it showed. It is kept only in        *)
(* SpecWindow, where the window is connected (lines 571-576); in the other *)
(* specifications window stays NoWindow and the signals are not followed.  *)
(***************************************************************************)
\* a dict built in place with code and message only (lines 108, 131-150, 404):
\* has_recovery is whether the dict has the keys recovery_attempted and
\* recovery_success
Plain(code) ==
    [code |-> code, has_recovery |-> FALSE,
     recovery_attempted |-> FALSE, recovery_success |-> FALSE]

\* no signal was handled yet
NoEvent == Plain("none")

\* ErrorRecoveryManager.handle_error: the ErrorDetails it may return for a code;
\* a recovery that was not attempted did not succeed
ErrorDetails(code) ==
    {[code |-> code, has_recovery |-> TRUE,
      recovery_attempted |-> attempted, recovery_success |-> success] :
        <<attempted, success>> \in {<<FALSE, FALSE>>, <<TRUE, FALSE>>, <<TRUE, TRUE>>}}

\* error.get(key, default)
Get(error, key, default) == IF error.has_recovery THEN error[key] ELSE default

\* MainWindow._on_audio_error, lines 792-823: what the user is shown; transcribing
\* is controller.is_transcribing as line 803 reads it
on_audio_error(error, transcribing) ==
    IF error.code = "DEVICE_CHANGE"
    THEN IF transcribing THEN "dialog" ELSE "none"
    ELSE IF Get(error, "recovery_attempted", FALSE) /\ Get(error, "recovery_success", TRUE)
         THEN "status"
         ELSE "dialog"

\* MainWindow._on_transcription_error, lines 825-848
on_transcription_error(error) ==
    IF error.code \in {"MODEL_LOADING", "MODEL_LOADED"} THEN "status"
    ELSE IF ~Get(error, "recovery_success", FALSE) THEN "dialog"
    ELSE "none"

\* MainWindow._on_output_error, lines 850-857
on_output_error(error) == "dialog"

\* line 83: the item data of "No compatible devices found"
NoDevice == 0 - 1

\* the item data of device_combo: empty before refresh_devices, the placeholder
\* alone (lines 81-86), or the ids of the compatible devices (line 98)
Combos == {<< >>, <<NoDevice>>, <<0, 1>>}

\* DeviceSelector.get_selected_device_id, lines 148-154: None is << >>, an id is
\* <<id>>; index counts from 1, 0 is no current item
get_selected_device_id(combo, index) ==
    IF index < 1 THEN << >> ELSE <<combo[index]>>

\* what get_selected_device_id may return
Selections ==
    {get_selected_device_id(combo, index) :
        <<combo, index>> \in {<<c, i>> \in Combos \X (0..2) :
                                 i <= Len(c) /\ (c # << >> => i >= 1)}}

\* bool(device_id) of Python: None and 0 are false, every other integer is true
Truthy(device_id) == device_id # << >> /\ device_id[1] # 0

\* the window once MainWindow.__init__ connected the signals
FreshWindow ==
    [built |-> TRUE, selected |-> << >>, call |-> "none", transcribing |-> FALSE,
     outcome |-> "none", returned |-> "none", emitted |-> 0, submitted |-> FALSE,
     signal |-> "none", event |-> NoEvent, notice |-> "none"]

\* the history starts again with every slot that a call of the window did not cause
Last(win) == IF win.built THEN FreshWindow ELSE win

\* the window when a call of start_transcription begins
Calling(win) ==
    IF win.built
    THEN [win EXCEPT !.outcome = "none", !.returned = "pending", !.emitted = 0,
                     !.submitted = FALSE]
    ELSE win

\* the call of start_transcription returned value
Answered(win, value) == IF win.built THEN [win EXCEPT !.returned = value] ELSE win

\* line 199: what audio_stream.start() and the recovery after it came to
Started(win, outcome) == IF win.built THEN [win EXCEPT !.outcome = outcome] ELSE win

\* thread_pool.submit was called
Submitted(win) == IF win.built THEN [win EXCEPT !.submitted = TRUE] ELSE win

\* signal.emit(error) with the slot that answers it
Slot(win, signal, error, notice) ==
    IF win.built
    THEN [win EXCEPT !.signal = signal, !.event = error, !.notice = notice]
    ELSE win

\* audio_error_signal.emit(error) inside start_transcription: the emissions of the
\* call are counted
StartError(win, error, transcribing) ==
    IF win.built
    THEN [Slot(win, "audio_error", error, on_audio_error(error, transcribing))
            EXCEPT !.emitted = @ + 1]
    ELSE win

(***************************************************************************)
(* The GUI thread: start_transcription, stop_transcription, toggle         *)
(***************************************************************************)
\* the history of the GUI thread's calls: the call, the one before it, and
\* whether the call returned at its guard
Called(op, name, at_guard) ==
    [name |-> name, seq |-> 1 - op.seq, prev |-> op.name, returned_at_guard |-> at_guard]

\* start_transcription without its guard
StartGuardDropped == FALSE

\* line 187: if self.is_transcribing: return
StartGuard == is_transcribing

\* stop_transcription without its guard
StopGuardDropped == FALSE

\* line 239: if not self.is_transcribing: return
StopGuard == ~is_transcribing

\* lines 185-197: the guard, stop_event.clear(), is_transcribing = True and the
\* construction of the audio stream; a constructor that raises takes the
\* except branch (lines 222-235)
StartCall(win) ==
    /\ gui = "idle"
    /\ gui_op' = Called(gui_op, "start", StartGuard)
    /\ IF StartGuard
       THEN /\ UNCHANGED <<ctl, gui>>
            /\ window' = Answered(Calling(win), "None")
       ELSE \E constructed \in BOOLEAN :
              /\ stop_event' = FALSE
              /\ IF constructed
                 THEN /\ is_transcribing' = TRUE
                      /\ audio_stream' = "stream"
                      /\ stream_active' = FALSE
                      /\ gui' = "start_stream"
                      /\ window' = Calling(win)
                 ELSE /\ is_transcribing' = FALSE
                      /\ UNCHANGED <<audio_stream, stream_active, gui>>
                      /\ \E error \in ErrorDetails("START_ERROR") :
                            window' = Answered(StartError(Calling(win), error, TRUE), "False")
    /\ UNCHANGED <<output_method, capitalization_mode, queued, now, worker>>
    /\ UNCHANGED rest

start_transcription == StartCall(window)

\* StartStream that goes on to submit the loop whatever start() and recovery answered
GoesOnAlways(outcome) == TRUE

\* lines 199, 211: the call goes on to line 218 when start() answered true or
\* handle_error reported recovery_success
GoesOn(outcome) == outcome # "failed"

\* the ErrorDetails with recovery_success false
Unrecovered(code) == {error \in ErrorDetails(code) : ~error.recovery_success}

\* lines 199-215: audio_stream.start(); on failure handle_error(AUDIO_DEVICE, ...)
\* and, unless recovery succeeded, is_transcribing = False and return False
StartStream ==
    /\ gui = "start_stream"
    /\ \E outcome \in {"started", "recovered", "failed"} :
         /\ stream_active' = (outcome = "started")
         /\ is_transcribing' = IF GoesOn(outcome) THEN is_transcribing ELSE FALSE
         /\ gui' = IF GoesOn(outcome) THEN "start_submit" ELSE "idle"
         /\ IF GoesOn(outcome)
            THEN window' = Started(window, outcome)
            ELSE \E error \in Unrecovered("STREAM_START_ERROR") :
                    window' = Answered(StartError(Started(window, outcome), error,
                                                  is_transcribing), "False")
    /\ UNCHANGED <<stop_event, audio_stream, output_method, capitalization_mode,
                   gui_op, queued, now, worker>>
    /\ UNCHANGED rest

\* the lowest free pool thread, 0 when all are busy
FreeThread ==
    IF \E w \in Workers : worker[w].pc = "idle"
    THEN CHOOSE w \in Workers :
            worker[w].pc = "idle" /\ \A v \in Workers : worker[v].pc = "idle" => w <= v
    ELSE 0

\* line 218: thread_pool.submit(self._transcription_thread); a free thread runs
\* lines 261-266 and stands before the loop condition, otherwise the item waits
StartSubmit ==
    /\ gui = "start_submit"
    /\ gui' = "idle"
    /\ IF FreeThread # 0
       THEN worker' = [worker EXCEPT ![FreeThread] = FreshLocals] /\ UNCHANGED queued
       ELSE queued < MaxQueued /\ queued' = queued + 1 /\ UNCHANGED worker
    /\ window' = Answered(Submitted(window), "True")
    /\ UNCHANGED <<ctl, output_method, capitalization_mode, gui_op, now>>
    /\ UNCHANGED rest

\* the workers that are inside _transcription_thread when stop passes its guard
Cancelled(wk) == [w \in Workers |->
                    IF wk[w].pc \in {"idle", "monitor"} THEN wk[w]
                    ELSE [wk[w] EXCEPT !.cancelled = TRUE]]

\* lines 237-243: the guard, stop_event.set(), is_transcribing = False
StopCall(win) ==
    /\ gui = "idle"
    /\ gui_op' = Called(gui_op, "stop", StopGuard)
    /\ IF StopGuard
       THEN UNCHANGED <<ctl, gui, worker>>
       ELSE /\ stop_event' = TRUE
            /\ is_transcribing' = FALSE
            /\ gui' = "stop_stream"
            /\ worker' = Cancelled(worker)
            /\ UNCHANGED <<audio_stream, stream_active>>
    /\ window' = win
    /\ UNCHANGED <<output_method, capitalization_mode, queued, now>>
    /\ UNCHANGED rest

stop_transcription == StopCall(window)

\* lines 245-246: if self.audio_stream: self.audio_stream.stop()
StopStream ==
    /\ gui = "stop_stream"
    /\ IF audio_stream # "none"
       THEN stream_active' = FALSE /\ gui' = "stop_clear"
       ELSE UNCHANGED stream_active /\ gui' = "idle"
    /\ UNCHANGED <<is_transcribing, stop_event, audio_stream, output_method,
                   capitalization_mode, gui_op, queued, now, worker>>
    /\ UNCHANGED others

\* line 247: self.audio_stream = None
StopClear ==
    /\ gui = "stop_clear"
    /\ audio_stream' = "none"
    /\ stream_active' = FALSE
    /\ gui' = "idle"
    /\ UNCHANGED <<is_transcribing, stop_event, output_method, capitalization_mode,
                   gui_op, queued, now, worker>>
    /\ UNCHANGED others

\* lines 251-257
toggle_transcription ==
    \/ is_transcribing /\ stop_transcription
    \/ ~is_transcribing /\ start_transcription

\* lines 778-783: the clipboard check box rewrites config["output"]["method"]
UpdateClipboardOption ==
    /\ gui = "idle"
    /\ \E m \in OutputMethods \ {output_method} : output_method' = m
    /\ UNCHANGED <<ctl, capitalization_mode, gui, gui_op, queued, now, worker>>
    /\ UNCHANGED others

\* the device goes away: audio_stream.is_active() turns false by itself
StreamEnds ==
    /\ audio_stream # "none"
    /\ stream_active
    /\ stream_active' = FALSE
    /\ UNCHANGED <<is_transcribing, stop_event, audio_stream, output_method,
                   capitalization_mode, gui, gui_op, queued, now, worker>>
    /\ UNCHANGED others

(***************************************************************************)
(* _transcription_thread on a pool thread                                  *)
(***************************************************************************)
\* ErrorRecoveryManager.handle_error: the recovery_success values it may report
handle_error(category) == BOOLEAN

\* what transcribe_with_vad / transcribe_with_noise_filtering may return
RecognizerResults ==
    [raw_text : RawTexts, processed_text : {<< >>}, is_final : BOOLEAN]

\* line 269, first two conjuncts: not self.stop_event.is_set() and self.audio_stream
LoopCondition == ~stop_event /\ audio_stream # "none"

Cond(w) ==
    /\ worker[w].pc = "cond"
    /\ worker' = [worker EXCEPT ![w].pc = IF LoopCondition THEN "cond2" ELSE "finally"]
    /\ UNCHANGED <<ctl, output_method, capitalization_mode, gui, gui_op, queued, now>>
    /\ UNCHANGED others

\* line 269, third conjunct: self.audio_stream.is_active(), audio_stream read again
Cond2(w) ==
    /\ worker[w].pc = "cond2"
    /\ worker' = [worker EXCEPT ![w].pc =
                    IF audio_stream = "none" THEN "except"
                    ELSE IF stream_active THEN "fetch" ELSE "finally"]
    /\ UNCHANGED <<ctl, output_method, capitalization_mode, gui, gui_op, queued, now>>
    /\ UNCHANGED others

\* Active that looks at the countdown alone
ActiveByCountdown(s) == s.hangover_counter > 0

\* line 299: if speech_detected or hangover_counter > 0
Active(s) == s.speech_detected \/ s.hangover_counter > 0

\* line 306: if result.raw_text
Delivers(res) == res.raw_text # << >>

\* lines 311-316: the result as transcription_signal carries it
Emitted(res, processed) == [res EXCEPT !.processed_text = processed]

\* Dispatches without the test of processed_text
DispatchesAnyFinal(res) == res.is_final

\* line 319: if result.is_final and result.processed_text
Dispatches(res) == res.is_final /\ res.processed_text # << >>

\* lines 282-320 for one frame: the locals, the capitalization mode after it and
\* the history of the iteration (the recognizer's result, the result emitted on
\* transcription_signal, the call of _output_text), in the order of the code
FrameStep(wk, is_speech, current_time, res, mode) ==
    LET s == SegStep(wk, is_speech, current_time)
        p == process_with_context(res.raw_text, mode)
        out == Emitted(res, p.text)
        recognized == <<[ev |-> "recognize", result |-> res]>>
        delivered == recognized \o <<[ev |-> "deliver", result |-> out]>>
    IN IF ~Active(s)
       THEN [wk |-> [s EXCEPT !.pc = "cond", !.iter_log = << >>, !.out_log = << >>],
             mode |-> mode]
       ELSE IF ~Delivers(res)
       THEN [wk |-> [s EXCEPT !.pc = "cond", !.iter_log = recognized, !.out_log = << >>],
             mode |-> mode]
       ELSE IF Dispatches(out)
       THEN [wk |-> [s EXCEPT !.pc = "output", !.text = out.processed_text,
                              !.iter_log = delivered \o
                                           <<[ev |-> "dispatch", result |-> out]>>,
                              !.out_log = << >>],
             mode |-> p.mode]
       ELSE [wk |-> [s EXCEPT !.pc = "cond", !.iter_log = delivered, !.out_log = << >>],
             mode |-> p.mode]

\* lines 277-279 without the continue: the empty chunk goes on to line 282 as a
\* frame without speech, read at the time of the last frame
NoChunkAsSilence(wk) ==
    [SegStep(wk, FALSE, now) EXCEPT !.pc = "cond", !.iter_log = << >>,
                                    !.out_log = << >>]

\* lines 277-279: if not chunk: time.sleep(0.01); continue -- the locals are left
\* as they are and the pass ends before line 282
NoChunk(wk) == [wk EXCEPT !.pc = "cond", !.iter_log = << >>, !.out_log = << >>]

\* lines 271-320: one pass of the loop body up to the call of _output_text
Iterate(w, speech, gaps, results) ==
    /\ worker[w].pc = "fetch"
    /\ \/ \* self.audio_stream is None at line 276: AttributeError
          /\ audio_stream = "none"
          /\ worker' = [worker EXCEPT ![w].pc = "except"]
          /\ UNCHANGED <<now, capitalization_mode>>
       \/ \* get_next_chunk() returns nothing: sleep and continue
          /\ audio_stream # "none"
          /\ worker' = [worker EXCEPT ![w] = NoChunk(worker[w])]
          /\ UNCHANGED <<now, capitalization_mode>>
       \/ \* a collaborator (VAD, recognizer) raises inside the iteration
          /\ audio_stream # "none"
          /\ worker' = [worker EXCEPT ![w].pc = "except"]
          /\ UNCHANGED <<now, capitalization_mode>>
       \/ \* a frame is processed
          /\ audio_stream # "none"
          /\ \E is_speech \in speech, dt \in gaps, res \in results :
               /\ now + dt <= MaxTime
               /\ now' = now + dt
               /\ LET r == FrameStep(worker[w], is_speech, now + dt, res,
                                     capitalization_mode)
                  IN /\ worker' = [worker EXCEPT ![w] = r.wk]
                     /\ capitalization_mode' = r.mode
    /\ UNCHANGED <<ctl, output_method, gui, gui_op, queued>>
    /\ UNCHANGED others

(***************************************************************************)
(* The loop body in two steps, for the threads that meet at the recognizer *)
(* and at transcription_signal: Recognize is lines 271-303, Deliver is     *)
(* lines 306-320. Iterate is the two run by one thread with no step of     *)
(* another thread in between.                                              *)
(***************************************************************************)
\* lines 300-303: the recognizer method the session toggle selects
Method == IF use_noise_filtering THEN "transcribe_with_noise_filtering"
          ELSE "transcribe_with_vad"

\* lines 111-116
toggle_noise_filtering ==
    /\ gui = "idle"
    /\ \E enabled \in BOOLEAN : use_noise_filtering' = enabled
    /\ UNCHANGED <<ctl, output_method, capitalization_mode, gui, gui_op, queued, now,
                   worker, load, cmd,
                   pipeline, meter, window>>

\* the threads that hold a result of the recognizer they have not delivered yet
Holding(wk) == {v \in Workers : wk[v].pc = "emit"}

\* lines 271-303: the frame is fetched, the segmenter steps, and while it is active
\* the recognizer is called; the thread then holds the result (history: behind is
\* the set of threads that hold an older result at that moment)
Recognize(w, speech, gaps, results) ==
    /\ worker[w].pc = "fetch"
    /\ \/ \* self.audio_stream is None at line 276: AttributeError
          /\ audio_stream = "none"
          /\ worker' = [worker EXCEPT ![w].pc = "except"]
          /\ UNCHANGED now
       \/ \* get_next_chunk() returns nothing: sleep and continue
          /\ audio_stream # "none"
          /\ worker' = [worker EXCEPT ![w].pc = "cond", ![w].iter_log = << >>,
                                      ![w].out_log = << >>]
          /\ UNCHANGED now
       \/ \* a collaborator (VAD, recognizer) raises inside the iteration
          /\ audio_stream # "none"
          /\ worker' = [worker EXCEPT ![w].pc = "except"]
          /\ UNCHANGED now
       \/ \* a frame is processed
          /\ audio_stream # "none"
          /\ \E is_speech \in speech, dt \in gaps, res \in results :
               /\ now + dt <= MaxTime
               /\ now' = now + dt
               /\ LET s == SegStep(worker[w], is_speech, now + dt)
                  IN IF Active(s)
                     THEN worker' = [worker EXCEPT ![w] =
                            [s EXCEPT !.pc = "emit", !.result = res,
                                      !.iter_log = <<[ev |-> "recognize", result |-> res,
                                                      method |-> Method]>>,
                                      !.out_log = << >>,
                                      !.behind = Holding(worker) \ {w},
                                      !.overtaken = FALSE]]
                     ELSE worker' = [worker EXCEPT ![w] =
                            [s EXCEPT !.pc = "cond", !.iter_log = << >>,
                                      !.out_log = << >>]]
    /\ UNCHANGED <<ctl, output_method, capitalization_mode, gui, gui_op, queued, others>>

\* the other threads after thread w has let go of its result: none is behind w any
\* more, and when w delivered, those that hold an older result they will deliver
\* have been overtaken
LetGo(wk, w, delivered) ==
    [v \in Workers |->
        IF v = w THEN wk[v]
        ELSE [wk[v] EXCEPT !.behind = @ \ {w},
                           !.overtaken = @ \/ (delivered /\ v \in wk[w].behind
                                                 /\ Delivers(wk[v].result))]]

\* lines 306-320: the result with raw_text goes through the pipeline and onto
\* transcription_signal, and a final one with processed_text on to _output_text
Deliver(w) ==
    /\ worker[w].pc = "emit"
    /\ LET res == worker[w].result
           p == process_with_context(res.raw_text, capitalization_mode)
           out == Emitted(res, p.text)
           delivered == worker[w].iter_log \o <<[ev |-> "deliver", result |-> out]>>
           others_after == LetGo(worker, w, Delivers(res))
       IN IF ~Delivers(res)
          THEN /\ worker' = [others_after EXCEPT ![w].pc = "cond", ![w].result = NoResult,
                                                 ![w].behind = {}]
               /\ UNCHANGED capitalization_mode
          ELSE /\ capitalization_mode' = p.mode
               /\ IF Dispatches(out)
                  THEN worker' = [others_after EXCEPT
                                     ![w].pc = "output", ![w].result = NoResult,
                                     ![w].behind = {}, ![w].text = out.processed_text,
                                     ![w].iter_log = delivered \o
                                                     <<[ev |-> "dispatch", result |-> out]>>]
                  ELSE worker' = [others_after EXCEPT
                                     ![w].pc = "cond", ![w].result = NoResult,
                                     ![w].behind = {}, ![w].iter_log = delivered]
    /\ UNCHANGED <<ctl, output_method, gui, gui_op, queued, now, use_noise_filtering,
                   load, commands, command_pattern, editor, proc, edits,
                   pipeline, meter, window>>

\* the number of times _output_text has called itself for this text
Depth(log) == Cardinality({i \in 1..Len(log) : log[i] = "retry"})

\* OutputAttempt that calls _output_text again whatever recovery reported
OutputAttemptIgnoresRecovery(log, sink, recovery_success) ==
    CASE sink = "ok" -> log \o <<"sink_ok">>
      [] sink = "fail" ->
            log \o <<"sink_fail",
                     IF recovery_success THEN "recovery_ok" ELSE "recovery_failed",
                     "retry">>
      [] OTHER ->
            log \o <<"sink_raised",
                     IF recovery_success THEN "recovery_ok" ELSE "recovery_failed",
                     "output_error">>

\* lines 339-399, one activation of _output_text: the log of this dispatch after
\* the sink answered sink and handle_error(OUTPUT, ...) reported recovery_success
OutputAttempt(log, sink, recovery_success) ==
    CASE sink = "ok" -> log \o <<"sink_ok">>
      [] sink = "fail" /\ recovery_success ->
            log \o <<"sink_fail", "recovery_ok", "retry">>
      [] sink = "fail" /\ ~recovery_success ->
            log \o <<"sink_fail", "recovery_failed", "output_error">>
      [] OTHER ->
            log \o <<"sink_raised",
                     IF recovery_success THEN "recovery_ok" ELSE "recovery_failed",
                     "output_error">>

\* the dispatch goes on exactly when the activation called _output_text again
Retries(log) == log # << >> /\ log[Len(log)] = "retry"

Output(w) ==
    /\ worker[w].pc = "output"
    /\ \E sink \in {"ok", "fail", "raise"}, recovery_success \in handle_error("OUTPUT") :
         LET log == OutputAttempt(worker[w].out_log, sink, recovery_success)
         IN /\ sink = "ok" => recovery_success
            /\ Retries(log) => Depth(log) <= MaxOutputDepth
            /\ worker' = [worker EXCEPT ![w].out_log = log,
                             ![w].pc = IF Retries(log) THEN "output" ELSE "cond",
                             ![w].text = IF Retries(log) THEN @ ELSE << >>]
    /\ UNCHANGED <<ctl, output_method, capitalization_mode, gui, gui_op, queued, now>>
    /\ UNCHANGED others

\* lines 321-332: handle_error(TRANSCRIPTION, ...) and transcription_error_signal;
\* the slot runs on the GUI thread, and the history follows it when that thread is
\* free to run it at once
Except(w) ==
    /\ worker[w].pc = "except"
    /\ worker' = [worker EXCEPT ![w].pc = "finally"]
    /\ \E error \in ErrorDetails("TRANSCRIPTION_ERROR") :
         window' = IF gui = "idle"
                   THEN Slot(Last(window), "transcription_error", error,
                             on_transcription_error(error))
                   ELSE window
    /\ UNCHANGED <<ctl, output_method, capitalization_mode, gui, gui_op, queued, now>>
    /\ UNCHANGED rest

\* lines 333-335: is_transcribing = False; the pool thread then takes the next
\* waiting work item, if any
Finally(w) ==
    /\ worker[w].pc = "finally"
    /\ is_transcribing' = FALSE
    /\ IF queued > 0
       THEN worker' = [worker EXCEPT ![w] = FreshLocals] /\ queued' = queued - 1
       ELSE worker' = [worker EXCEPT ![w] = IdleWorker] /\ UNCHANGED queued
    /\ UNCHANGED <<stop_event, audio_stream, stream_active, output_method,
                   capitalization_mode, gui, gui_op, now>>
    /\ UNCHANGED others

(***************************************************************************)
(* Two specifications over the same actions.                               *)
(*                                                                         *)
(* Spec: the life cycle of the controller under every interleaving of the  *)
(* GUI thread's calls with the pool threads. The frames are silent and     *)
(* arrive within the same millisecond, so the recognizer and _output_text, *)
(* which touch no field of the controller, are not entered.                *)
(*                                                                         *)
(* SpecLoop: one session (start is called once) under every sequence of    *)
(* VAD flags, frame gaps, recognizer results, sink and recovery outcomes,  *)
(* with stop, the end of the stream and the output option at any moment.   *)
(***************************************************************************)
SilentResults == {r \in RecognizerResults : r.raw_text = << >> /\ ~r.is_final}

Next ==
    \/ start_transcription
    \/ StartStream
    \/ StartSubmit
    \/ stop_transcription
    \/ StopStream
    \/ StopClear
    \/ toggle_transcription
    \/ StreamEnds
    \/ \E w \in Workers : Cond(w)
    \/ \E w \in Workers : Cond2(w)
    \/ \E w \in Workers : Iterate(w, {FALSE}, {0}, SilentResults)
    \/ \E w \in Workers : Except(w)
    \/ \E w \in Workers : Finally(w)

Spec == Init /\ [][Next]_vars

NextLoop ==
    \/ gui_op.name = "none" /\ start_transcription
    \/ StartStream
    \/ StartSubmit
    \/ stop_transcription
    \/ StopStream
    \/ StopClear
    \/ UpdateClipboardOption
    \/ StreamEnds
    \/ \E w \in Workers : Cond(w)
    \/ \E w \in Workers : Cond2(w)
    \/ \E w \in Workers : Iterate(w, BOOLEAN, DtSet, RecognizerResults)
    \/ \E w \in Workers : Output(w)
    \/ \E w \in Workers : Except(w)
    \/ \E w \in Workers : Finally(w)

SpecLoop == Init /\ [][NextLoop]_vars

(***************************************************************************)
(* The model load and monitor_progress                                     *)
(*                                                                         *)
(* initialize() constructs the recognizer, which loads its model on its    *)
(* own, and submits monitor_progress to the pool, where it takes the first *)
(* thread after the one of message_loop.                                   *)
(***************************************************************************)
MonitorThread == CHOOSE w \in Workers : \A v \in Workers : w <= v

\* the recognizer's load ends: is_loading() answers False from now on and
\* is_model_loaded() tells how it ended
ModelLoadEnds ==
    /\ transcriber = "loading"
    /\ transcriber' \in {"loaded", "failed"}
    /\ UNCHANGED <<ctl, output_method, capitalization_mode, gui, gui_op, queued, now,
                   worker, use_noise_filtering, monitor, cmd,
                   pipeline, meter, window>>

\* Significant that takes every change of the reading
SignificantAny(progress, last_progress) == {progress # last_progress}

\* line 128: abs(progress - last_progress) >= 0.05, in binary floating point: a
\* difference of exactly 0.05 compares either way (0.06 - 0.01 < 0.05 <= 0.55 - 0.5)
Significant(progress, last_progress) ==
    LET d == IF progress >= last_progress THEN progress - last_progress
             ELSE last_progress - progress
    IN IF d * 20 > ProgressScale THEN {TRUE}
       ELSE IF d * 20 = ProgressScale THEN BOOLEAN
       ELSE {FALSE}

\* line 133: int(progress * 100)
Percent(progress) == (progress * 100) \div ProgressScale

\* the pool after monitor_progress has returned: its thread takes the next waiting
\* work item, if any
Released(wk) ==
    [wk EXCEPT ![MonitorThread] = IF queued > 0 THEN FreshLocals ELSE IdleWorker]

\* lines 123-136, one pass of the while loop, or its end when is_loading() answers
\* False
Poll(readings) ==
    /\ monitor.pc = "poll"
    /\ IF transcriber = "loading"
       THEN \E progress \in readings, significant \in BOOLEAN :
              /\ significant \in Significant(progress, monitor.last_progress)
              /\ significant => Len(monitor.events) < MaxEvents
              /\ monitor' =
                   IF significant
                   THEN [monitor EXCEPT
                           !.last_progress = progress,
                           !.events = Append(@, [code |-> "MODEL_LOADING",
                                                 percent |-> Percent(progress)])]
                   ELSE monitor
       ELSE monitor' = [monitor EXCEPT !.pc = "final"]
    /\ UNCHANGED <<ctl, output_method, capitalization_mode, gui, gui_op, queued, now,
                   worker, use_noise_filtering, transcriber, cmd,
                   pipeline, meter, window>>

\* TerminalCode that reports success however the load ended
TerminalCodeLoaded(load_state) == "MODEL_LOADED"

\* lines 139-150: if self.transcriber.is_model_loaded() ... else ...
TerminalCode(load_state) ==
    IF load_state = "loaded" THEN "MODEL_LOADED" ELSE "MODEL_LOAD_ERROR"

\* lines 139-150: the final check and the one notification of how the load ended
MonitorFinal ==
    /\ monitor.pc = "final"
    /\ monitor' = [monitor EXCEPT
                     !.pc = "done",
                     !.events = Append(@, [code |-> TerminalCode(transcriber),
                                           percent |-> 0])]
    /\ worker' = Released(worker)
    /\ queued' = IF queued > 0 THEN queued - 1 ELSE queued
    /\ UNCHANGED <<ctl, output_method, capitalization_mode, gui, gui_op, now,
                   use_noise_filtering, transcriber, cmd,
                   pipeline, meter, window>>

\* lines 151-152: an accessor of the recognizer raises; the error is logged and
\* monitor_progress returns
MonitorRaises ==
    /\ monitor.pc \in {"poll", "final"}
    /\ monitor' = [monitor EXCEPT !.pc = "done", !.raised = TRUE]
    /\ worker' = Released(worker)
    /\ queued' = IF queued > 0 THEN queued - 1 ELSE queued
    /\ UNCHANGED <<ctl, output_method, capitalization_mode, gui, gui_op, now,
                   use_noise_filtering, transcriber, cmd,
                   pipeline, meter, window>>

\* the controller after initialize(): the model is loading and monitor_progress
\* runs on its pool thread
InitLoad ==
    /\ InitController
    /\ InitCommands
    /\ InitRest
    /\ transcriber = "loading"
    /\ monitor = [pc |-> "poll", last_progress |-> 0, events |-> << >>, raised |-> FALSE]
    /\ worker = [w \in Workers |->
                   IF w = MonitorThread THEN [IdleWorker EXCEPT !.pc = "monitor"]
                   ELSE IdleWorker]

(***************************************************************************)
(* SpecMonitor: monitor_progress against the load, under every sequence of *)
(* progress readings. The pool thread of the monitor is scheduled again    *)
(* after each sleep, which is the fairness of SpecMonitorFair.             *)
(*                                                                         *)
(* SpecLoad: the controller's calls while the model loads or after the     *)
(* load has ended either way; the monitor reads no progress worth a        *)
(* notification.                                                           *)
(***************************************************************************)
Readings == 0..MaxProgress

NextMonitor ==
    \/ ModelLoadEnds
    \/ Poll(Readings)
    \/ MonitorFinal
    \/ MonitorRaises

SpecMonitor == InitLoad /\ [][NextMonitor]_vars

SpecMonitorFair ==
    SpecMonitor /\ WF_vars(Poll(Readings)) /\ WF_vars(MonitorFinal)

NextLoad ==
    \/ ModelLoadEnds
    \/ Poll({0})
    \/ MonitorFinal
    \/ MonitorRaises
    \/ start_transcription
    \/ StartStream
    \/ StartSubmit
    \/ stop_transcription
    \/ StopStream
    \/ StopClear
    \/ \E w \in Workers : Cond(w)
    \/ \E w \in Workers : Cond2(w)
    \/ \E w \in Workers : Iterate(w, {FALSE}, {0}, SilentResults)
    \/ \E w \in Workers : Except(w)
    \/ \E w \in Workers : Finally(w)

SpecLoad == InitLoad /\ [][NextLoad]_vars


(***************************************************************************)
(* Two specifications with the loop body in its two steps; the results are *)
(* not final, so _output_text is not entered.                              *)
(*                                                                         *)
(* SpecOrder: sessions started and stopped at will while every frame holds *)
(* speech, so that the threads interleave between the recognizer and the   *)
(* signal. The frames arrive within the same millisecond.                  *)
(*                                                                         *)
(* SpecResults: one session under every sequence of VAD flags on frames    *)
(* that arrive at the nominal rate, with the noise filtering toggled at    *)
(* any moment.                                                             *)
(***************************************************************************)
PartialResults == {r \in RecognizerResults : r.raw_text \in {<< >>, <<"hello">>} /\ ~r.is_final}

NextOrder ==
    \/ start_transcription
    \/ StartStream
    \/ StartSubmit
    \/ stop_transcription
    \/ StopStream
    \/ StopClear
    \/ \E w \in Workers : Cond(w)
    \/ \E w \in Workers : Cond2(w)
    \/ \E w \in Workers : Recognize(w, {TRUE}, {0}, PartialResults)
    \/ \E w \in Workers : Deliver(w)
    \/ \E w \in Workers : Except(w)
    \/ \E w \in Workers : Finally(w)

SpecOrder == Init /\ [][NextOrder]_vars

NextResults ==
    \/ gui_op.name = "none" /\ start_transcription
    \/ StartStream
    \/ StartSubmit
    \/ stop_transcription
    \/ StopStream
    \/ StopClear
    \/ toggle_noise_filtering
    \/ StreamEnds
    \/ \E w \in Workers : Cond(w)
    \/ \E w \in Workers : Cond2(w)
    \/ \E w \in Workers : Recognize(w, BOOLEAN, {FrameMs}, PartialResults)
    \/ \E w \in Workers : Deliver(w)
    \/ \E w \in Workers : Except(w)
    \/ \E w \in Workers : Finally(w)

SpecResults == Init /\ [][NextResults]_vars

(***************************************************************************)
(* The command map: add_command, remove_command and get_commands on one    *)
(* thread, process() in its steps on the worker. Each write of the dict,   *)
(* the assignment of command_pattern and each read of the two by process() *)
(* is one step; add_command writes the phrase and its aliases in one.      *)
(***************************************************************************)
\* the definitions add_command is called with: a phrase of another case with a new
\* action, an alias made a primary phrase with a declared primary as its alias, a
\* new phrase, and one with no action
NewCommands ==
    {[phrase |-> "Plus", action |-> "-", aliases |-> << >>],
     [phrase |-> "tab", action |-> "{CAPSLOCK}", aliases |-> <<"caps on">>],
     [phrase |-> "sign", action |-> "#", aliases |-> << >>],
     [phrase |-> "plus", action |-> "", aliases |-> << >>]}

\* the phrases remove_command is called with
RemovedPhrases == {"plus", "Caps On", "hello"}

\* the texts process() is called with
ProcessTexts == {<<"plus", "sign">>, <<"hello", "Plus">>, <<"caps", "off">>, <<"all", "caps">>}

\* lines 242-252: the guard and the writes of the dict
add_command ==
    /\ editor.pc = "idle"
    /\ editor.calls < MaxEdits
    /\ \E c \in NewCommands :
         IF c.phrase = "" \/ c.action = ""
         THEN /\ editor' = [editor EXCEPT !.calls = @ + 1]
              /\ UNCHANGED <<commands, edits>>
         ELSE /\ commands' = Define(commands, c)
              /\ editor' = [pc |-> "compile", calls |-> editor.calls + 1]
              /\ edits' = Append(edits, [op |-> "add", command |-> c])
    /\ UNCHANGED <<ctl, output_method, capitalization_mode, gui, gui_op, queued, now,
                   worker, use_noise_filtering, load, command_pattern, proc,
                   pipeline, meter, window>>

\* lines 257-264: the guard and del self.commands[phrase]
remove_command ==
    /\ editor.pc = "idle"
    /\ editor.calls < MaxEdits
    /\ \E phrase \in RemovedPhrases :
         IF HasKey(commands, LowerPhrase(phrase))
         THEN /\ commands' = DictDel(commands, LowerPhrase(phrase))
              /\ editor' = [pc |-> "compile", calls |-> editor.calls + 1]
              /\ edits' = Append(edits, [op |-> "remove",
                                          command |-> [phrase |-> phrase, action |-> "",
                                                       aliases |-> << >>]])
         ELSE /\ editor' = [editor EXCEPT !.calls = @ + 1]
              /\ UNCHANGED <<commands, edits>>
    /\ UNCHANGED <<ctl, output_method, capitalization_mode, gui, gui_op, queued, now,
                   worker, use_noise_filtering, load, command_pattern, proc,
                   pipeline, meter, window>>

\* lines 254 and 265: self._compile_patterns() assigns the new pattern
Compile ==
    /\ editor.pc = "compile"
    /\ command_pattern' = compile_patterns(commands)
    /\ editor' = [editor EXCEPT !.pc = "idle"]
    /\ UNCHANGED <<ctl, output_method, capitalization_mode, gui, gui_op, queued, now,
                   worker, use_noise_filtering, load, commands, proc, edits,
                   pipeline, meter, window>>

\* AddToGroups that takes the phrase it sees last as the primary phrase
AddToGroupsLast(groups, e) ==
    IF \E g \in 1..Len(groups) : groups[g].action = e.action
    THEN [g \in 1..Len(groups) |->
            IF groups[g].action = e.action
            THEN [groups[g] EXCEPT !.phrase = e.phrase,
                                   !.aliases = Append(@, groups[g].phrase)]
            ELSE groups[g]]
    ELSE Append(groups, [action |-> e.action, phrase |-> e.phrase, aliases |-> << >>])

\* lines 275-278: one entry of the dict put into the groups
AddToGroups(groups, e) ==
    IF \E g \in 1..Len(groups) : groups[g].action = e.action
    THEN [g \in 1..Len(groups) |->
            IF groups[g].action = e.action /\ groups[g].phrase # e.phrase
            THEN [groups[g] EXCEPT !.aliases = Append(@, e.phrase)]
            ELSE groups[g]]
    ELSE Append(groups, [action |-> e.action, phrase |-> e.phrase, aliases |-> << >>])

RECURSIVE GroupAll(_, _)
GroupAll(groups, d) ==
    IF d = << >> THEN groups ELSE GroupAll(AddToGroups(groups, Head(d)), Tail(d))

\* lines 270-280
get_commands(d) == GroupAll(<< >>, d)

\* lines 114-122: the guard, finditer on the lowered text with the pattern of this
\* moment, processed_text = text
ProcessBegin ==
    /\ proc.pc = "idle"
    /\ \E text \in ProcessTexts :
         IF text = << >> \/ command_pattern = << >>
         THEN proc' = [IdleProc EXCEPT !.pc = "done", !.text = text,
                                       !.processed_text = text]
         ELSE LET found == FindMatches(command_pattern, LowerText(text), 1)
              IN proc' = [pc |-> "resolve", text |-> text, pattern |-> command_pattern,
                          found |-> found, matches |-> found, processed_text |-> text,
                          resolved |-> << >>]
    /\ UNCHANGED <<ctl, output_method, capitalization_mode, gui, gui_op, queued, now,
                   worker, use_noise_filtering, load, commands, command_pattern, editor,
                   edits,
                   pipeline, meter, window>>

\* lines 123-146, one pass of the for loop, with the map of this moment (history:
\* resolved tells what the lookup of line 126 found)
ProcessResolve ==
    /\ proc.pc = "resolve"
    /\ proc.matches # << >>
    /\ LET match == proc.matches[Len(proc.matches)]
           st == ApplyMatch(commands,
                            [text |-> proc.processed_text, mode |-> capitalization_mode],
                            match)
       IN /\ proc' = [proc EXCEPT
                        !.matches = SubSeq(@, 1, Len(@) - 1),
                        !.processed_text = st.text,
                        !.resolved = Append(@, [phrase |-> match.phrase,
                                                known |-> HasKey(commands, match.phrase),
                                                action |-> DictGet(commands, match.phrase, "")])]
          /\ capitalization_mode' = st.mode
    /\ UNCHANGED <<ctl, output_method, gui, gui_op, queued, now,
                   worker, use_noise_filtering, load, commands, command_pattern, editor,
                   edits,
                   pipeline, meter, window>>

\* lines 148-173: the capitalization pass and the return
ProcessFinish ==
    /\ proc.pc = "resolve"
    /\ proc.matches = << >>
    /\ proc' = [proc EXCEPT !.pc = "done",
                            !.processed_text = Capitalize(@, capitalization_mode)]
    /\ UNCHANGED <<ctl, output_method, capitalization_mode, gui, gui_op, queued, now,
                   worker, use_noise_filtering, load, commands, command_pattern, editor,
                   edits,
                   pipeline, meter, window>>

\* the caller has the result
ProcessReturn ==
    /\ proc.pc = "done"
    /\ proc' = IdleProc
    /\ UNCHANGED <<ctl, output_method, capitalization_mode, gui, gui_op, queued, now,
                   worker, use_noise_filtering, load, commands, command_pattern, editor,
                   edits,
                   pipeline, meter, window>>

(***************************************************************************)
(* SpecCommands: calls of add_command and remove_command on one thread     *)
(* against calls of process() on another, from the default commands.       *)
(***************************************************************************)
NextCommands ==
    \/ add_command
    \/ remove_command
    \/ Compile
    \/ ProcessBegin
    \/ ProcessResolve
    \/ ProcessFinish
    \/ ProcessReturn

SpecCommands == Init /\ [][NextCommands]_vars

(***************************************************************************)
(* The text pipeline called with strings: one EnhancedCommandProcessor or  *)
(* one CommandProcessor (the one src/test_application.py tests) and the    *)
(* calls of process, add_command, remove_command and                       *)
(* set_capitalization_mode on it from one thread: the map is edited and    *)
(* the mode set, then process is called with a text and once more with     *)
(* what it returned. pipeline holds what the calls were given and what     *)
(* they returned.                                                          *)
(***************************************************************************)
\* the longest text over Alphabet that process() is called with
MaxTextLen == 3

Alphabet == {"a", ".", " "}

\* every text over Alphabet of at most n characters
RECURSIVE TextsUpTo(_)
TextsUpTo(n) ==
    IF n = 0 THEN {""}
    ELSE TextsUpTo(n - 1) \cup {t \o ch : t \in TextsUpTo(n - 1), ch \in Alphabet}

\* the texts of src/test_application.py, lines 183, 188, 193, 199 and 210
TestTexts ==
    {"end of sentence period",
     "first line new line second line",
     "is this working question mark",
     "hello comma how are you question mark new paragraph this is great exclamation point",
     "hello smiley face goodbye"}

\* texts with the phrases of the two sentinels
SentinelTexts ==
    {"all caps hello period", "hello no caps world comma yes", "hello all caps",
     "say all caps this comma no caps that"}

\* a text with an alias of "period"
AliasTexts == {"wait full stop"}

PipelineTexts == TestTexts \cup SentinelTexts \cup AliasTexts \cup TextsUpTo(MaxTextLen)

\* the values set_capitalization_mode is called with
ModeInputs == {"auto", "all_caps", "none", "ALL_CAPS", ""}

\* the definitions add_command is called with, and the phrases remove_command is
CustomCommands == {Cmd("smiley face", " :) "), Cmd("", "x"), Cmd("wave", "")}

RemovedTextPhrases == {"Period", "smiley", ""}

\* the constructor has run
FreshPipeline(kind) ==
    [pc |-> "idle", kind |-> kind, op |-> "none", returned |-> "",
     text |-> "", processed_text |-> "", mode_before |-> "auto", again |-> ""]

InitPipeline ==
    /\ InitController
    /\ transcriber = "loaded"
    /\ monitor = MonitorDone
    /\ worker = [w \in Workers |-> IdleWorker]
    /\ editor = [pc |-> "idle", calls |-> 0]
    /\ proc = IdleProc
    /\ edits = << >>
    /\ meter = NoMeter
    /\ window = NoWindow
    /\ capitalization_mode = "auto"
    /\ \E kind \in {"enhanced", "basic"} :
         /\ commands = (IF kind = "enhanced" THEN EnhancedCommands ELSE CommandCommands)
         /\ command_pattern =
                compile_patterns(IF kind = "enhanced" THEN EnhancedCommands
                                 ELSE CommandCommands)
         /\ pipeline = FreshPipeline(kind)

\* what the pipeline's actions leave alone
beside == <<ctl, output_method, gui, gui_op, queued, now, worker, use_noise_filtering,
            load, editor, proc, edits, meter, window>>

\* process(text) of the instance
Process(kind, d, pattern, text, mode) ==
    IF kind = "enhanced" THEN EnhancedProcess(d, pattern, text, mode)
    ELSE CommandProcess(d, pattern, text, mode)

\* self.processor.process(text)
PipelineProcess ==
    /\ pipeline.pc = "idle"
    /\ \E text \in PipelineTexts :
         LET r == Process(pipeline.kind, commands, command_pattern, text,
                          capitalization_mode)
         IN /\ capitalization_mode' = r.mode
            /\ pipeline' = [pipeline EXCEPT !.pc = "processed", !.op = "process",
                                            !.returned = r.text,
                                            !.text = text,
                                            !.processed_text = r.processed_text,
                                            !.mode_before = capitalization_mode,
                                            !.again = ""]
    /\ UNCHANGED <<beside, commands, command_pattern>>

\* process() called with what process(text) has just returned
PipelineProcessAgain ==
    /\ pipeline.pc = "processed"
    /\ LET r == Process(pipeline.kind, commands, command_pattern, pipeline.returned,
                        capitalization_mode)
       IN /\ capitalization_mode' = r.mode
          /\ pipeline' = [pipeline EXCEPT !.pc = "again", !.again = r.text]
    /\ UNCHANGED <<beside, commands, command_pattern>>

\* ValidMode that takes any value
ValidModeAny(mode) == TRUE

\* line 284: if mode in ["auto", "all_caps", "none"]
ValidMode(mode) == mode \in {"auto", "all_caps", "none"}

\* EnhancedCommandProcessor.set_capitalization_mode(mode), lines 282-287
SetMode(mode) ==
    /\ pipeline.pc \in {"idle", "processed", "again"}
    /\ pipeline.kind = "enhanced"
    /\ capitalization_mode' = IF ValidMode(mode) THEN mode ELSE capitalization_mode
    /\ pipeline' = [pipeline EXCEPT !.op = "set_capitalization_mode",
                                    !.returned = IF ValidMode(mode) THEN "True"
                                                 ELSE "False"]
    /\ UNCHANGED <<beside, commands, command_pattern>>

set_capitalization_mode == \E mode \in ModeInputs : SetMode(mode)

\* add_command(phrase, action) of either class, run without interruption: lines
\* 244-255 of enhanced_command_processor.py, 91-96 of command_processor.py
PipelineAddCommand ==
    /\ pipeline.pc = "idle"
    /\ \E c \in CustomCommands :
         IF c.phrase = "" \/ c.action = ""
         THEN /\ pipeline' = [pipeline EXCEPT !.op = "add_command", !.returned = "False"]
              /\ UNCHANGED <<commands, command_pattern>>
         ELSE /\ commands' = DefineText(commands, c)
              /\ command_pattern' = compile_patterns(DefineText(commands, c))
              /\ pipeline' = [pipeline EXCEPT !.op = "add_command", !.returned = "True"]
    /\ UNCHANGED <<beside, capitalization_mode>>

\* remove_command(phrase) of either class, run without interruption: lines
\* 257-268 of enhanced_command_processor.py, 98-109 of command_processor.py
PipelineRemoveCommand ==
    /\ pipeline.pc = "idle"
    /\ \E phrase \in RemovedTextPhrases :
         IF phrase # "" /\ HasKey(commands, StrLower(phrase))
         THEN /\ commands' = DictDel(commands, StrLower(phrase))
              /\ command_pattern' = compile_patterns(DictDel(commands, StrLower(phrase)))
              /\ pipeline' = [pipeline EXCEPT !.op = "remove_command",
                                              !.returned = "True"]
         ELSE /\ pipeline' = [pipeline EXCEPT !.op = "remove_command",
                                              !.returned = "False"]
              /\ UNCHANGED <<commands, command_pattern>>
    /\ UNCHANGED <<beside, capitalization_mode>>

NextPipeline ==
    \/ PipelineProcess
    \/ PipelineProcessAgain
    \/ set_capitalization_mode
    \/ PipelineAddCommand
    \/ PipelineRemoveCommand

SpecPipeline == InitPipeline /\ [][NextPipeline]_vars

(***************************************************************************)
(* AudioLevelMeter of src/src/gui/audio_level_meter.py: set_level, called  *)
(* by the level monitor's timer, and _update_peak, called by the meter's   *)
(* own timer, both on the GUI thread, so each runs to its end before the   *)
(* other starts. A level is a whole number of 1 / LevelScale. The clock    *)
(* and _last_peak_time enter the code only through their difference (line  *)
(* 36), which is what the model keeps: since_peak is the time since        *)
(* _last_peak_time was written, since_tick the time since the meter's      *)
(* timer fired.                                                            *)
(***************************************************************************)
\* a level of 1.0
LevelScale == 1000

\* self._peak_hold_time, in ms
PeakHoldTime == 1000

\* self._timer.start(16)
TimerInterval == 16

\* len(self._level_history)
HistoryLen == 10

\* self._peak_decay_rate = 0.001 per ms, in levels per ms
PeakDecayRate == LevelScale \div 1000

\* calls of set_level that the model follows
MaxLevelCalls == 3

\* the meter's timer fires on time, or late after the GUI thread was kept busy
\* for longer than the hold time
TickGaps == {TimerInterval, PeakHoldTime + TimerInterval}

\* set_level is called between two firings of the meter's timer
PassMs == TimerInterval \div 2

\* time.time() * 1000 is some 10^12 while _last_peak_time is still 0: any
\* difference above PeakHoldTime decays a peak by more than LevelScale, so the
\* model keeps differences up to this one
LongElapsed == 2 * PeakHoldTime

\* the levels set_level is called with: below 0.0, 0.5, above 1.0
LevelInputs == {0 - LevelScale \div 2, LevelScale \div 2, LevelScale + LevelScale \div 2}

Min2(a, b) == IF a <= b THEN a ELSE b

Max2(a, b) == IF a >= b THEN a ELSE b

RECURSIVE Total(_, _)
Total(f, n) == IF n = 0 THEN 0 ELSE f[n] + Total(f, n - 1)

\* line 49: max(0.0, min(1.0, level))
Clamp(level) == Max2(0, Min2(LevelScale, level))

\* line 56: np.mean(self._level_history)
Mean(history) == Total(history, HistoryLen) \div HistoryLen

\* Decayed without the max
DecayedBelow(level, peak_level, decay_amount) == peak_level - decay_amount

\* line 41: max(self._level, self._peak_level - decay_amount)
Decayed(level, peak_level, decay_amount) == Max2(level, peak_level - decay_amount)

\* the meter after __init__ (lines 15-23); held and event are history: for how
\* long peak_level has kept its value with the level below it and the timer
\* firing on time, and what the last call did
FreshMeter ==
    [built |-> TRUE, level |-> 0, peak_level |-> 0, since_peak |-> LongElapsed,
     since_tick |-> 0, level_history |-> [i \in 1..HistoryLen |-> 0],
     history_index |-> 1, calls |-> 0, held |-> 0, event |-> "none"]

\* the meter after set_level(level) and HistoryLen - 1 calls of set_level(0.0):
\* the next call overwrites the one sample that is not 0
AfterOneSample(level) ==
    [FreshMeter EXCEPT !.level = Mean([i \in 1..HistoryLen |-> IF i = 1 THEN level ELSE 0]),
                       !.peak_level = Mean([i \in 1..HistoryLen |->
                                                IF i = 1 THEN level ELSE 0]),
                       !.level_history = [i \in 1..HistoryLen |->
                                            IF i = 1 THEN level ELSE 0],
                       !.since_peak = 0]

InitMeter ==
    /\ InitController
    /\ InitCommands
    /\ transcriber = "loaded"
    /\ monitor = MonitorDone
    /\ worker = [w \in Workers |-> IdleWorker]
    /\ pipeline = NoPipeline
    /\ window = NoWindow
    /\ meter \in {FreshMeter} \cup {AfterOneSample(Clamp(level)) : level \in LevelInputs}

\* what the meter's handlers leave alone
outside == <<ctl, output_method, capitalization_mode, gui, gui_op, queued, now, worker,
             use_noise_filtering, load, cmd, pipeline, window>>

\* the time the model counts for held
HeldCap == PeakHoldTime + 2 * TimerInterval

\* AudioLevelMeter.set_level(level), lines 46-71
set_level(level) ==
    /\ meter.built
    /\ meter.calls < MaxLevelCalls
    /\ LET history == [meter.level_history EXCEPT ![meter.history_index] = Clamp(level)]
           smoothed_level == Mean(history)
           raised == smoothed_level # meter.level /\ smoothed_level > meter.peak_level
       IN meter' = [meter EXCEPT
                        !.level_history = history,
                        !.history_index = (meter.history_index % HistoryLen) + 1,
                        !.level = smoothed_level,
                        !.peak_level = IF raised THEN smoothed_level ELSE @,
                        !.since_peak = IF raised THEN 0 ELSE @,
                        !.held = IF raised \/ smoothed_level >= meter.peak_level THEN 0
                                 ELSE @,
                        !.calls = @ + 1,
                        !.event = IF raised THEN "raised"
                                  ELSE IF smoothed_level # meter.level THEN "changed"
                                  ELSE "same"]
    /\ UNCHANGED outside

\* time passes between two firings of the meter's timer
Pass ==
    /\ meter.built
    /\ meter.since_tick = 0
    /\ meter' = [meter EXCEPT !.since_tick = PassMs,
                              !.since_peak = Min2(LongElapsed, @ + PassMs),
                              !.held = IF meter.level < meter.peak_level
                                       THEN Min2(HeldCap, @ + PassMs) ELSE 0,
                              !.event = "pass"]
    /\ UNCHANGED outside

\* the meter's timer fires gap ms after it fired last: _update_peak, lines 33-44
update_peak(gap) ==
    /\ meter.built
    /\ LET elapsed == Min2(LongElapsed, meter.since_peak + (gap - meter.since_tick))
           decays == meter.peak_level > meter.level /\ elapsed > PeakHoldTime
           peak == IF decays
                   THEN Decayed(meter.level, meter.peak_level, PeakDecayRate * elapsed)
                   ELSE meter.peak_level
       IN meter' = [meter EXCEPT
                        !.peak_level = peak,
                        !.since_peak = 0,
                        !.since_tick = 0,
                        !.held = IF \/ peak # meter.peak_level
                                    \/ meter.level >= meter.peak_level
                                    \/ gap # TimerInterval
                                 THEN 0
                                 ELSE Min2(HeldCap, @ + (gap - meter.since_tick)),
                        !.event = IF decays THEN "decayed" ELSE "tick"]
    /\ UNCHANGED outside

NextMeter ==
    \/ \E level \in LevelInputs : set_level(level)
    \/ Pass
    \/ \E gap \in TickGaps : update_peak(gap)

SpecMeter == InitMeter /\ [][NextMeter]_vars

(***************************************************************************)
(* SpecWindow: the main window connected to the controller. The user       *)
(* toggles the session with any selection of the device list, the device   *)
(* list changes, and the signals reach their slots; the pool threads run   *)
(* the loop on silent frames as in Spec.                                   *)
(***************************************************************************)
InitWindow ==
    /\ InitController
    /\ InitCommands
    /\ transcriber = "loaded"
    /\ monitor = MonitorDone
    /\ worker = [w \in Workers |-> IdleWorker]
    /\ pipeline = NoPipeline
    /\ meter = NoMeter
    /\ window = FreshWindow

\* what a slot that calls nothing of the controller leaves alone
behind_window == <<ctl, output_method, capitalization_mode, gui, gui_op, queued, now,
                   worker, rest>>

\* MainWindow._toggle_transcription, lines 725-766, up to the return of
\* stop_transcription or to the first step of start_transcription
MainWindow_toggle_transcription ==
    /\ window.built
    /\ gui = "idle"
    /\ \E device_id \in Selections :
         LET refused == ~Truthy(device_id)
             win == [FreshWindow EXCEPT !.selected = device_id,
                                   !.transcribing = is_transcribing,
                                   !.call = IF refused THEN "warned"
                                            ELSE IF is_transcribing THEN "stop"
                                            ELSE "start"]
         IN IF refused
            THEN window' = win /\ UNCHANGED behind_window
            ELSE IF is_transcribing THEN StopCall(win) ELSE StartCall(win)

\* TranscriptionController._on_device_change, lines 401-405, and the slot
\* _on_audio_error that answers DEVICE_CHANGE, lines 800-811
on_device_change ==
    /\ window.built
    /\ gui = "idle"
    /\ LET error == Plain("DEVICE_CHANGE")
           win == Slot(FreshWindow, "audio_error", error,
                       on_audio_error(error, is_transcribing))
       IN IF is_transcribing
          THEN StopCall(win)
          ELSE window' = win /\ UNCHANGED behind_window

\* one activation of _output_text (lines 339-399) inside a running loop that ends
\* with output_error_signal.emit(error_details), and the slot _on_output_error
OutputErrorEmitted ==
    /\ window.built
    /\ gui = "idle"
    /\ \E w \in Workers : worker[w].pc \notin {"idle", "monitor", "finally"}
    /\ \E sink \in {"fail", "raise"}, error \in ErrorDetails("OUTPUT_ERROR") :
         LET log == OutputAttempt(<< >>, sink, error.recovery_success)
         IN /\ log[Len(log)] = "output_error"
            /\ window' = Slot(FreshWindow, "output_error", error, on_output_error(error))
    /\ UNCHANGED behind_window

\* the dicts of initialize() and monitor_progress (lines 108, 131-150) reach
\* _on_transcription_error; the load has ended, so they do before the first toggle
LoadNotified ==
    /\ window.built
    /\ gui = "idle"
    /\ gui_op.name = "none"
    /\ \E code \in {"INIT_ERROR", "MODEL_LOADING", "MODEL_LOADED", "MODEL_LOAD_ERROR"} :
         window' = Slot(FreshWindow, "transcription_error", Plain(code),
                        on_transcription_error(Plain(code)))
    /\ UNCHANGED behind_window

NextWindow ==
    \/ MainWindow_toggle_transcription
    \/ StartStream
    \/ StartSubmit
    \/ StopStream
    \/ StopClear
    \/ StreamEnds
    \/ on_device_change
    \/ OutputErrorEmitted
    \/ LoadNotified
    \/ \E w \in Workers : Cond(w)
    \/ \E w \in Workers : Cond2(w)
    \/ \E w \in Workers : Iterate(w, {FALSE}, {0}, SilentResults)
    \/ \E w \in Workers : Except(w)
    \/ \E w \in Workers : Finally(w)

SpecWindow == InitWindow /\ [][NextWindow]_vars


(***************************************************************************)
(* Properties                                                              *)
(***************************************************************************)
InLoopBody(w) == worker[w].pc \in {"fetch", "output"}

SinkEvents == {"sink_ok", "sink_fail", "sink_raised"}

Count(log, events) == Cardinality({i \in 1..Len(log) : log[i] \in events})

Modes == {"auto", "all_caps"}

\* C1: the segmenter turns speech_detected from true to false on a frame only if,
\* on that frame, hangover_counter <= 0 and current_time - last_speech_time exceeds
\* hangover_timeout_ms; so never while hangover_counter > 0.
C1_EndOfSpeechNeedsBothTimers ==
    [][\A w \in Workers :
         (worker[w].pc = "fetch" /\ worker[w].speech_detected
            /\ ~worker'[w].speech_detected)
         => (worker'[w].hangover_counter <= 0
               /\ now' - worker[w].last_speech_time > HangoverTimeoutMs)]_vars

\* a worker still in its session whose segment has ended: speech was heard
\* (last_speech_time was set) and speech_detected is false again
C1_SegmentEnded ==
    \E w \in Workers :
        /\ worker[w].pc \in {"cond", "cond2", "fetch"}
        /\ ~worker[w].speech_detected
        /\ worker[w].last_speech_time > 0
        /\ worker[w].hangover_counter <= 0

\* C2: at most one _transcription_thread is inside its loop at any time.
C2_AtMostOneLoopRunning ==
    Cardinality({w \in Workers : InLoopBody(w)}) <= 1

\* C3: a worker that was running when stop_transcription passed its guard leaves
\* the loop at its next test of the loop condition, whatever is called afterwards.
C3_CancelledWorkerLeavesAtNextCheck ==
    [][\A w \in Workers :
         (worker[w].cancelled /\ worker[w].pc = "cond" /\ worker'[w].pc # "cond")
         => worker'[w].pc = "finally"]_vars

\* C4: after a failure inside an iteration, with no stop requested and the audio
\* source still active, the loop goes on with the next iteration.
C4_LoopContinuesAfterFailure ==
    [][\A w \in Workers :
         (worker[w].pc = "except" /\ worker'[w].pc # "except"
            /\ ~stop_event /\ audio_stream # "none" /\ stream_active)
         => worker'[w].pc \in {"cond", "cond2", "fetch"}]_vars

\* C5: for one final result _output_text invokes the output sink at most twice.
C5_SinkInvokedAtMostTwice ==
    \A w \in Workers : Count(worker[w].out_log, SinkEvents) <= 2

\* C6: when the sink reports failure and recovery does not report success, one
\* output-error event is emitted for the text and the sink is not invoked again;
\* when the sink succeeds at the first attempt, recovery is not invoked and no
\* output-error event is emitted.
C6_OutputFailureSurfacedOnce ==
    \A w \in Workers :
        LET log == worker[w].out_log
        IN /\ \A i \in 1..(Len(log) - 1) :
                (log[i] = "sink_fail" /\ log[i + 1] = "recovery_failed")
                => /\ Len(log) = i + 2
                   /\ log[i + 2] = "output_error"
                   /\ Count(log, {"output_error"}) = 1
           /\ (log # << >> /\ log[1] = "sink_ok") => log = <<"sink_ok">>

\* a dispatch that ended with a failed sink, a failed recovery and the event
C6_FailureSurfaced ==
    \E w \in Workers :
        LET log == worker[w].out_log
        IN /\ Len(log) >= 3
           /\ SubSeq(log, Len(log) - 2, Len(log))
                = <<"sink_fail", "recovery_failed", "output_error">>
           /\ worker[w].pc = "cond"

\* C7: after stop_transcription has returned (and start was not called since), no
\* audio stream that the controller started is still active.
C7_NoStreamActiveAfterStop ==
    (gui = "idle" /\ gui_op.name = "stop")
    => ~(audio_stream # "none" /\ stream_active)

\* C8: a call of stop_transcription that follows a completed call of
\* stop_transcription, with no start in between, returns at once and leaves
\* is_transcribing, the stop event and the audio stream as they were.
C8_SecondStopChangesNothing ==
    [][(gui = "idle" /\ gui_op.name = "stop"
          /\ gui_op'.name = "stop" /\ gui_op'.seq # gui_op.seq)
       => (gui' = "idle" /\ UNCHANGED <<ctl, queued, worker>>)]_vars

\* two calls of stop_transcription in a row have returned, the first of which
\* stopped a session (the stop event is still set) that a worker has not left yet
C8_StoppedTwice ==
    /\ gui = "idle" /\ gui_op.name = "stop" /\ gui_op.prev = "stop"
    /\ gui_op.returned_at_guard
    /\ stop_event /\ audio_stream = "none"
    /\ \E w \in Workers : worker[w].cancelled /\ worker[w].pc # "idle"

\* C9: start_transcription called while is_transcribing is true returns at once:
\* no audio stream is created, no worker is scheduled, the stop event is not
\* cleared and the controller is left as it was.
C9_StartWhileTranscribingIsNoOp ==
    [][(gui = "idle" /\ is_transcribing
          /\ gui_op'.name = "start" /\ gui_op'.seq # gui_op.seq)
       => (gui' = "idle" /\ UNCHANGED <<ctl, queued, worker>>)]_vars

\* start_transcription has returned at its guard while a worker was in its loop
C9_StartedWhileTranscribing ==
    /\ gui = "idle" /\ gui_op.name = "start" /\ gui_op.returned_at_guard
    /\ is_transcribing
    /\ \E w \in Workers : InLoopBody(w)

\* C10: in an iteration the recognizer's result is delivered exactly when its
\* raw_text is not empty, and it is delivered with processed_text set to the
\* pipeline's output; _output_text is called exactly when that result is final
\* and its processed_text is not empty, and after the delivery.
C10_DeliveryAndDispatch ==
    \A w \in Workers :
        LET log == worker[w].iter_log
        IN /\ Len(log) <= 3
           /\ worker[w].pc = "output" => Len(log) = 3
           /\ log # << >> =>
                /\ log[1].ev = "recognize"
                /\ (Len(log) >= 2) <=> (log[1].result.raw_text # << >>)
           /\ Len(log) >= 2 =>
                /\ log[2].ev = "deliver"
                /\ log[2].result.raw_text = log[1].result.raw_text
                /\ log[2].result.is_final = log[1].result.is_final
                /\ \E m \in Modes :
                      log[2].result.processed_text
                        = process_with_context(log[1].result.raw_text, m).text
                /\ log[1].result.raw_text = <<"hello">>
                      => log[2].result.processed_text \in {<<"Hello">>, <<"HELLO">>}
                /\ (Len(log) = 3) <=> (log[2].result.is_final
                                         /\ log[2].result.processed_text # << >>)
           /\ Len(log) = 3 => log[3] = [ev |-> "dispatch", result |-> log[2].result]

\* a final result was delivered and then handed to _output_text
C10_Dispatched ==
    \E w \in Workers :
        /\ Len(worker[w].iter_log) = 3
        /\ worker[w].pc = "output"
        /\ worker[w].text = worker[w].iter_log[2].result.processed_text

\* C11: the consumer receives the results in the order in which they were obtained
\* from the recognizer: no result is delivered after a result that was obtained
\* later than it, under every interleaving of controller calls and worker steps.
C11_ResultsDeliveredInOrderObtained ==
    [][\A w \in Workers :
         (worker[w].pc = "emit" /\ worker'[w].pc # "emit" /\ Delivers(worker[w].result))
         => ~worker[w].overtaken]_vars

\* C12: on every frame the loop obtains, the recognizer is invoked, once, exactly
\* when the segmenter is not idle after the frame (speech_detected holds), with
\* transcribe_with_noise_filtering when use_noise_filtering is set and with
\* transcribe_with_vad otherwise; it is invoked on no other step.
C12_RecognizerInvokedIffNotIdle ==
    [][\A w \in Workers :
         /\ (worker[w].pc = "fetch" /\ now' # now) =>
               LET s == worker'[w]
               IN /\ s.speech_detected <=> (s.pc = "emit")
                  /\ s.pc = "emit" =>
                        /\ Len(s.iter_log) = 1
                        /\ s.iter_log[1].ev = "recognize"
                        /\ s.iter_log[1].result = s.result
                        /\ use_noise_filtering
                             => s.iter_log[1].method = "transcribe_with_noise_filtering"
                        /\ ~use_noise_filtering
                             => s.iter_log[1].method = "transcribe_with_vad"
                  /\ s.pc # "emit" => s.iter_log = << >>
         /\ (worker[w].pc # "emit" /\ worker'[w].pc = "emit")
               => (worker[w].pc = "fetch" /\ now' # now)]_vars

\* the recognizer was called through transcribe_with_vad on a frame of the hangover
\* whose countdown has run out while the silence is not longer than the timeout
C12_RecognizedInHangover ==
    \E w \in Workers :
        /\ worker[w].pc = "emit"
        /\ worker[w].speech_detected
        /\ worker[w].hangover_counter <= 0
        /\ worker[w].iter_log[1].method = "transcribe_with_vad"

\* C13: start_transcription neither marks the session as transcribing nor schedules
\* the worker loop while the recognizer's model is loading or has failed to load.
C13_NoSessionWithoutLoadedModel ==
    [][(transcriber # "loaded")
       => /\ (gui_op'.name = "start" /\ gui_op'.seq # gui_op.seq) => ~is_transcribing'
          /\ (gui = "start_submit" /\ gui' = "idle") => UNCHANGED <<worker, queued>>]_vars

Abs(x) == IF x >= 0 THEN x ELSE 0 - x

LoadingEvents(events) == SelectSeq(events, LAMBDA e : e.code = "MODEL_LOADING")

\* C14: every MODEL_LOADING notification reports a percentage that differs by at
\* least 5 from the percentage of the MODEL_LOADING notification before it, and
\* from 0 when it is the first.
C14_ProgressNotifiedInStepsOfFive ==
    LET l == LoadingEvents(monitor.events)
    IN \A i \in 1..Len(l) :
          Abs(l[i].percent - (IF i = 1 THEN 0 ELSE l[i - 1].percent)) >= 5

\* two notifications, the second one for a progress below that of the first
C14_NotifiedUpAndDown ==
    LET l == LoadingEvents(monitor.events)
    IN Len(l) = 2 /\ l[2].percent < l[1].percent

TerminalCodes == {"MODEL_LOADED", "MODEL_LOAD_ERROR"}

\* C15: once is_loading() has answered False (and no accessor raises), the monitor
\* emits one terminal notification, MODEL_LOADED when the model is loaded and
\* MODEL_LOAD_ERROR otherwise, emits nothing after it, and returns.
C15_OneTerminalNotification ==
    /\ [](LET e == monitor.events
          IN /\ \A i \in 1..Len(e) : e[i].code \in TerminalCodes => i = Len(e)
             /\ (monitor.pc = "done" /\ ~monitor.raised) =>
                   /\ e # << >>
                   /\ e[Len(e)].code = IF transcriber = "loaded" THEN "MODEL_LOADED"
                                        ELSE "MODEL_LOAD_ERROR"
             /\ (e # << >> /\ e[Len(e)].code \in TerminalCodes) => monitor.pc = "done"
             /\ monitor.pc \in {"poll", "final"} => worker[MonitorThread].pc = "monitor"
             /\ monitor.pc = "done" => worker[MonitorThread].pc # "monitor")
    /\ ((transcriber # "loading") ~> (monitor.pc = "done"))

\* the load failed after two progress notifications and the monitor has said so
C15_LoadErrorNotified ==
    /\ monitor.pc = "done"
    /\ Len(monitor.events) = 3
    /\ monitor.events[3].code = "MODEL_LOAD_ERROR"
    /\ transcriber = "failed"

\* C16: while add_command or remove_command runs against process(), every phrase
\* that process() has matched with the compiled pattern is a key of the command map
\* when its action is looked up: no match is replaced by the empty string because
\* its phrase is missing from the map.
C16_MatchedPhraseIsInTheMap ==
    \A i \in 1..Len(proc.resolved) : proc.resolved[i].known

\* the positions of the dict whose entry has this action
KeysOf(d, action) == {k \in 1..Len(d) : d[k].action = action}

\* the members of a set of positions in increasing order
RECURSIVE Ascending(_)
Ascending(positions) ==
    IF positions = {} THEN << >>
    ELSE LET least == CHOOSE k \in positions : \A j \in positions : k <= j
         IN <<least>> \o Ascending(positions \ {least})

\* C17: get_commands() returns one group per action of the map; the primary phrase
\* of a group is the phrase of that action that stands first in the map, its
\* aliases are the other phrases of that action in the order of the map, so every
\* phrase of the map is reported once, in the group of its action.
C17_OneGroupPerAction ==
    LET groups == get_commands(commands)
    IN /\ \A g, h \in 1..Len(groups) : groups[g].action = groups[h].action => g = h
       /\ {groups[g].action : g \in 1..Len(groups)}
            = {commands[k].action : k \in 1..Len(commands)}
       /\ \A g \in 1..Len(groups) :
             LET members == Ascending(KeysOf(commands, groups[g].action))
             IN /\ groups[g].phrase = commands[Head(members)].phrase
                /\ groups[g].aliases
                     = [i \in 1..(Len(members) - 1) |-> commands[members[i + 1]].phrase]
       /\ \A k \in 1..Len(commands) :
             Cardinality({<<g, i>> \in (1..Len(groups)) \X (0..Len(commands)) :
                            \/ i = 0 /\ groups[g].phrase = commands[k].phrase
                            \/ /\ i \in 1..Len(groups[g].aliases)
                               /\ groups[g].aliases[i] = commands[k].phrase}) = 1

\* after two calls, add_command has given the alias tab the action of caps on and
\* caps off: tab, which stands before them in the map, is the primary phrase of
\* their group and they are its aliases
C17_GroupedAfterEdits ==
    /\ editor.pc = "idle" /\ editor.calls >= 2
    /\ \E g \in 1..Len(get_commands(commands)) :
          /\ get_commands(commands)[g].action = "{CAPSLOCK}"
          /\ get_commands(commands)[g].phrase = "tab"
          /\ get_commands(commands)[g].aliases = <<"caps on", "caps off">>

\* C18: every phrase that was declared as the primary phrase of a command, and is
\* still in the map, is reported by get_commands() as a primary phrase.
C18_DeclaredPrimaryIsReportedPrimary ==
    \A phrase \in primaries :
        HasKey(commands, phrase)
        => \E g \in 1..Len(get_commands(commands)) :
              get_commands(commands)[g].phrase = phrase

\* C19: every phrase, in lower case, is a key of the map once, with the action of
\* the definition that named it last (as primary phrase or alias), and no phrase
\* that no definition names is a key.
C19_LastWriteWins ==
    /\ \A k, j \in 1..Len(commands) : commands[k].phrase = commands[j].phrase => k = j
    /\ \A k \in 1..Len(commands) : commands[k].phrase \in Phrases
    /\ \A phrase \in Phrases :
          IF latest[phrase] = "none" THEN ~HasKey(commands, phrase)
          ELSE HasKey(commands, phrase) /\ DictGet(commands, phrase, "") = latest[phrase]

\* add_command("Plus", "-") has given the phrase plus of the default commands
\* another action, and plus sign, its alias there, has kept the old one
C19_Redefined ==
    /\ editor.pc = "idle"
    /\ DictGet(commands, "plus", "") = "-"
    /\ DictGet(commands, "plus sign", "") = "+"
    /\ Len(commands) = Len(BuildCommands(<< >>, DefaultCommands))

\* C20: where a phrase of the pattern stands in the text and process() has a match
\* that starts there, the match spans the whole of the longest such phrase: a
\* shorter phrase that is a word-prefix of it does not take the match.
C20_LongerPhraseNotShadowed ==
    \A i \in 1..Len(proc.found) :
        \A k \in 1..Len(proc.pattern) :
            PhraseAt(LowerText(proc.text), proc.found[i].start, proc.pattern[k])
            => Len(Split[proc.pattern[k]]) <= Len(Split[proc.found[i].phrase])

(***************************************************************************)
(* Properties of the text pipeline on strings                              *)
(***************************************************************************)
CapitalizationModes == {"auto", "all_caps", "none"}

\* C21: capitalization_mode is one of auto, all_caps and none in every state that
\* process, set_capitalization_mode, add_command and remove_command reach, and
\* set_capitalization_mode called with any other value returns False and leaves
\* the mode as it is.
C21_ModeIsOneOfThree ==
    /\ [](capitalization_mode \in CapitalizationModes)
    /\ [][\A mode \in ModeInputs \ CapitalizationModes :
            SetMode(mode) => /\ capitalization_mode' = capitalization_mode
                             /\ pipeline'.returned = "False"]_vars

\* process() has met the phrase of the AllCapsOn sentinel, and a call of
\* set_capitalization_mode after it was refused
C21_OtherModeRefused ==
    /\ pipeline.pc = "processed"
    /\ pipeline.op = "set_capitalization_mode"
    /\ pipeline.returned = "False"
    /\ capitalization_mode = "all_caps"

\* the matches process() found in the text it was called with last, and the action
\* the map holds for each
Found == TextFindMatches(command_pattern, StrLower(pipeline.text))

ActionOf(match) == DictGet(commands, match.phrase, "")

FoundActions == {ActionOf(Found[i]) : i \in 1..Len(Found)}

\* C22: process() of a text with a phrase of the AllCapsOn sentinel (and none of
\* the other) leaves capitalization_mode all_caps, with a phrase of the
\* AllCapsOff sentinel (and none of the other) auto; the span of the sentinel's
\* phrase is deleted and nothing is put in its place, and every other command of
\* the text has its action in the text.
C22_SentinelSetsModeAndIsDeleted ==
    (pipeline.pc = "processed" /\ pipeline.op = "process" /\ pipeline.kind = "enhanced"
        /\ FoundActions \cap Sentinels # {})
    => /\ FoundActions \cap Sentinels = {"{ALLCAPS_ON}"} => capitalization_mode = "all_caps"
       /\ FoundActions \cap Sentinels = {"{ALLCAPS_OFF}"} => capitalization_mode = "auto"
       /\ \A token \in Sentinels :
             /\ ~Contains(pipeline.processed_text, token)
             /\ ~Contains(pipeline.returned, token)
       /\ \A action \in FoundActions \ Sentinels :
             Contains(pipeline.processed_text, action)
       /\ Len(pipeline.processed_text)
            = Len(pipeline.text)
                - Total([i \in 1..Len(Found) |-> Len(Found[i].phrase)], Len(Found))
                + Total([i \in 1..Len(Found) |->
                            IF ActionOf(Found[i]) \in Sentinels THEN 0
                            ELSE Len(ActionOf(Found[i]))], Len(Found))

\* "all caps hello period" was processed: the mode is all_caps, the phrase all caps
\* is gone and period has become "."
C22_AllCapsAndPeriod ==
    /\ pipeline.pc = "processed"
    /\ pipeline.op = "process"
    /\ pipeline.kind = "enhanced"
    /\ pipeline.text = "all caps hello period"
    /\ pipeline.processed_text = " hello ."
    /\ pipeline.returned = " HELLO."
    /\ capitalization_mode = "all_caps"

(***************************************************************************)
(* Properties of the level meter                                           *)
(***************************************************************************)
\* C23: after every sequence of set_level calls and firings of the peak timer,
\* the peak level is at least the smoothed level.
C23_PeakAtLeastLevel == meter.built => meter.peak_level >= meter.level

\* the timer fired late with the level below the peak, and the peak came down to
\* the level
C23_PeakDecayedToLevel ==
    /\ meter.built
    /\ meter.event = "decayed"
    /\ meter.level > 0
    /\ meter.peak_level = meter.level

\* C24: when the peak timer fires on time, the level is below the peak and the
\* peak has by then kept its value for the hold time, with the level below it and
\* the timer on time all the while, this firing lowers the peak.
C24_HeldPeakDecays ==
    [][(/\ update_peak(TimerInterval)
        /\ meter.level < meter.peak_level
        /\ meter.held + (TimerInterval - meter.since_tick) > PeakHoldTime)
       => meter'.peak_level < meter.peak_level]_vars

\* process() of the instance of kind has returned, and nothing was called since
Processed(kind) ==
    pipeline.pc = "processed" /\ pipeline.op = "process" /\ pipeline.kind = kind

\* where the word starts that ends at position i of text
WordStart(text, i) ==
    CHOOSE j \in 1..(i + 1) :
        /\ \A h \in j..i : IsWordChar(At(text, h))
        /\ ~IsWordChar(At(text, j - 1))

\* a match of process() covers a position of from..to
Matched(from, to) ==
    \E i \in 1..Len(Found) :
        \E h \in from..to : h \in Found[i].start..(Found[i].start + Len(Found[i].phrase) - 1)

\* the matches whose action is a sentence mark and that stand one space after a
\* word that is no command
MarksAfterWord ==
    {i \in 1..Len(Found) :
        /\ ActionOf(Found[i]) \in Terminals
        /\ At(pipeline.text, Found[i].start - 1) = " "
        /\ IsWordChar(At(pipeline.text, Found[i].start - 2))
        /\ ~Matched(WordStart(pipeline.text, Found[i].start - 2), Found[i].start - 2)}

\* C25: in auto mode "end of sentence period" becomes "End of sentence."; a text
\* that starts with a letter (and not with a command phrase) comes back with that
\* letter in upper case, and a phrase whose action is a sentence mark comes back
\* as the mark right behind the word before it, without the space between them.
C25_FirstLetterUpAndMarkAttached ==
    (Processed("enhanced") /\ capitalization_mode = "auto")
    => /\ (pipeline.text = "end of sentence period" /\ HasKey(commands, "period"))
            => pipeline.returned = "End of sentence."
       /\ (At(pipeline.text, 1) \in Chars(LowerLetters) \cup Chars(UpperLetters)
                /\ ~Matched(1, 1))
            => At(pipeline.returned, 1) = CharUpper(At(pipeline.text, 1))
       /\ \A i \in MarksAfterWord :
            LET start == Found[i].start
                word == SubSeq(pipeline.text, WordStart(pipeline.text, start - 2), start - 2)
            IN Contains(StrLower(pipeline.returned), StrLower(word) \o ActionOf(Found[i]))

\* "end of sentence period" was processed in auto mode
C25_EndOfSentence ==
    /\ Processed("enhanced")
    /\ capitalization_mode = "auto"
    /\ pipeline.text = "end of sentence period"
    /\ pipeline.returned = "End of sentence."

\* C26: CommandProcessor.process replaces a punctuation phrase together with the
\* whitespace before it and leaves the case of the first word as it was: "end of
\* sentence period" comes back as "end of sentence." and "is this working question
\* mark" as "is this working?".
C26_BasicKeepsCaseAndDropsSpace ==
    Processed("basic")
    => /\ (pipeline.text = "end of sentence period" /\ HasKey(commands, "period"))
            => pipeline.returned = "end of sentence."
       /\ pipeline.text = "is this working question mark"
            => pipeline.returned = "is this working?"

\* C27: process() of either class leaves no space between a control token and the
\* words next to it: "first line new line second line" comes back with "line" right
\* before {ENTER} and "second" right after it.
C27_NoSpaceAroundToken ==
    (/\ pipeline.pc = "processed"
     /\ pipeline.op = "process"
     /\ pipeline.text = "first line new line second line")
    => Contains(pipeline.returned, "line{ENTER}second")

\* the text of test_multiple_commands, line 199
MultipleCommands ==
    "hello comma how are you question mark new paragraph this is great exclamation point"

\* C28: the first letter after a sentence mark is capitalized even with control
\* tokens in between: the text of test_multiple_commands comes back with "?" right
\* before "{ENTER}{ENTER}" and "This is great!" right after it.
C28_CapitalAfterTokens ==
    (/\ pipeline.pc = "processed"
     /\ pipeline.op = "process"
     /\ pipeline.mode_before = "auto"
     /\ pipeline.text = MultipleCommands)
    => Contains(pipeline.returned, "?{ENTER}{ENTER}This is great!")

\* C29: once add_command("smiley face", " :) ") was called, process("hello smiley
\* face goodbye") returns "hello :) goodbye": one space on each side of the token
\* and the words as they were.
C29_AddedCommandWithSingleSpaces ==
    (/\ pipeline.pc = "processed"
     /\ pipeline.op = "process"
     /\ HasKey(commands, "smiley face")
     /\ pipeline.text = "hello smiley face goodbye")
    => pipeline.returned = "hello :) goodbye"

\* C30: on a text without command phrases process() is idempotent: process() of
\* what process() returned is what process() returned.
C30_ProcessTwiceIsProcessOnce ==
    (/\ pipeline.pc = "again"
     /\ pipeline.op = "process"
     /\ pipeline.kind = "enhanced"
     /\ Found = << >>)
    => pipeline.again = pipeline.returned

(***************************************************************************)
(* Properties of the window and of the calls it makes                      *)
(***************************************************************************)
\* C31: a slot that received an error event whose recovery succeeded shows no
\* blocking dialog, a slot that received an unrecovered error event shows one, and
\* MODEL_LOADING and MODEL_LOADED show none; for the audio, the transcription and
\* the output error signal alike.
C31_NoticeBySeverity ==
    (window.built /\ window.signal # "none")
    => /\ (window.event.has_recovery /\ window.event.recovery_success)
            => window.notice # "dialog"
       /\ (window.event.has_recovery /\ ~window.event.recovery_success)
            => window.notice = "dialog"
       /\ window.event.code \in {"MODEL_LOADING", "MODEL_LOADED"}
            => window.notice # "dialog"

\* C32: when audio_stream.start() failed and recovery did not report success, the
\* call has returned False, has emitted exactly one audio error, has submitted no
\* loop, and is_transcribing is false; a loop was submitted only by a call whose
\* stream started or was recovered, and that call emitted no audio error.
C32_FailedStartSchedulesNothing ==
    window.built
    => /\ window.outcome = "failed"
            => /\ window.returned = "False"
               /\ window.emitted = 1
               /\ ~window.submitted
               /\ ~is_transcribing
               /\ gui = "idle"
       /\ window.submitted
            => window.outcome \in {"started", "recovered"} /\ window.emitted = 0

\* a start whose stream failed to start has returned
C32_StartFailed ==
    /\ window.built
    /\ window.call = "start"
    /\ window.outcome = "failed"
    /\ window.returned = "False"
    /\ window.event.code = "STREAM_START_ERROR"

\* the id denotes a compatible device: a device id is 0 or more
Compatible(device_id) == device_id # << >> /\ device_id[1] >= 0

\* C40: _toggle_transcription shows the "No compatible audio input device
\* selected" warning, and calls nothing, exactly when the selected id is None or
\* the placeholder; with a compatible device (id 0 included) it starts a session
\* when none is running and stops the session when one is running.
C40_ToggleByCompatibleDevice ==
    (window.built /\ window.call # "none")
    => /\ (window.call = "warned") <=> ~Compatible(window.selected)
       /\ (Compatible(window.selected) /\ ~window.transcribing) => window.call = "start"
       /\ (Compatible(window.selected) /\ window.transcribing) => window.call = "stop"

(***************************************************************************)
(* Properties of the commands and the segmenter                            *)
(***************************************************************************)
\* the default definitions whose primary phrase is no key of the map: those that
\* remove_command(phrase) removed
RemovedDefaults ==
    {i \in 1..Len(EnhancedDefaults) : ~HasKey(commands, EnhancedDefaults[i].phrase)}

\* the aliases the definitions of a set were defined with
AliasesOf(defs) ==
    UNION {{EnhancedDefaults[i].aliases[j] : j \in 1..Len(EnhancedDefaults[i].aliases)} :
             i \in defs}

\* C33: after remove_command(p) of a primary phrase that was defined with aliases,
\* neither p nor one of its aliases is a key of the map or a phrase of the compiled
\* pattern, and process() matches none of them.
C33_RemovedWithItsAliases ==
    pipeline.kind = "enhanced"
    => \A alias \in AliasesOf(RemovedDefaults) :
          /\ ~HasKey(commands, alias)
          /\ \A i \in 1..Len(command_pattern) : command_pattern[i] # alias
          /\ Processed("enhanced") =>
                \A i \in 1..Len(Found) : Found[i].phrase # alias

\* the matches of the text processed last whose action is a sentinel
SentinelMatches == {i \in 1..Len(Found) : ActionOf(Found[i]) \in Sentinels}

\* the mode a sentinel sets
ModeOf(action) == IF action = "{ALLCAPS_ON}" THEN "all_caps" ELSE "auto"

\* the mode process() leaves for the text processed last
ModeLeft ==
    IF SentinelMatches = {} THEN pipeline.mode_before
    ELSE LET leftmost == CHOOSE i \in SentinelMatches : \A j \in SentinelMatches : i <= j
         IN ModeOf(ActionOf(Found[leftmost]))

\* what process() returned holds no phrase of a sentinel
ReturnedWithoutSentinel ==
    LET again == TextFindMatches(command_pattern, StrLower(pipeline.returned))
    IN \A i \in 1..Len(again) : ActionOf(again[i]) \notin Sentinels

\* C39: process() of a text without sentinels leaves the mode as it found it, with
\* sentinels in the text it leaves the mode of the leftmost one, and the whole text
\* is capitalized by the mode it leaves (in all_caps no lower-case letter is
\* returned); the next call of process() finds that mode and, on a text without
\* sentinels, works by it and leaves it.
C39_LeftmostSentinelDecides ==
    (pipeline.kind = "enhanced" /\ pipeline.op = "process" /\ pipeline.text # "")
    => /\ pipeline.pc = "processed"
            => /\ capitalization_mode = ModeLeft
               /\ ModeLeft = "all_caps" => pipeline.returned = StrUpper(pipeline.returned)
               /\ ModeLeft = "none"
                     => pipeline.returned = apply_smart_spacing(pipeline.processed_text)
       /\ (pipeline.pc = "again" /\ ReturnedWithoutSentinel)
            => /\ capitalization_mode = ModeLeft
               /\ ModeLeft = "all_caps" => pipeline.again = StrUpper(pipeline.again)

\* a text with "all caps" before "no caps" was processed in auto mode
C39_AllCapsBeforeNoCaps ==
    /\ Processed("enhanced")
    /\ pipeline.mode_before = "auto"
    /\ pipeline.text = "say all caps this comma no caps that"
    /\ capitalization_mode = "all_caps"
    /\ pipeline.returned = "SAY THIS, THAT"

\* C34: a pass of the loop in which get_next_chunk() returns no frame leaves
\* speech_detected, hangover_counter and last_speech_time as they were, reads no
\* time for a frame, and calls neither the recognizer, the pipeline (no result is
\* emitted, the capitalization mode stays) nor _output_text.
C34_NoFrameNoEffect ==
    [][\A w \in Workers :
         (worker[w].pc = "fetch" /\ worker'[w].pc = "cond" /\ now' = now)
         => /\ worker'[w].speech_detected = worker[w].speech_detected
            /\ worker'[w].hangover_counter = worker[w].hangover_counter
            /\ worker'[w].last_speech_time = worker[w].last_speech_time
            /\ worker'[w].result = worker[w].result
            /\ worker'[w].iter_log = << >>
            /\ worker'[w].out_log = << >>
            /\ capitalization_mode' = capitalization_mode]_vars

\* a pass without a frame has ended in the middle of a segment: the segmenter is
\* in its hangover and the pass called nothing
C34_NoFrameInSegment ==
    \E w \in Workers :
        /\ worker[w].pc = "cond"
        /\ worker[w].speech_detected
        /\ worker[w].hangover_counter > 0
        /\ worker[w].hangover_counter < HangoverTimeoutMs
        /\ worker[w].iter_log = << >>
        /\ worker[w].out_log = << >>

\* the non-speech frames a worker's segmenter has taken since its last speech
\* frame, which set hangover_counter to hangover_timeout_ms: each takes 20 off
SilentFrames(s) == (HangoverTimeoutMs - s.hangover_counter) \div FrameMs

\* hangover_timeout_ms / 20
HangoverFrames == HangoverTimeoutMs \div FrameMs

\* C35: with frames 20 ms apart and hangover_timeout_ms a positive multiple of 20,
\* each of the first hangover_timeout_ms / 20 non-speech frames after the last
\* speech frame leaves the segmenter active and is passed to the recognizer, and
\* the non-speech frame after them makes it Idle (nothing is recognized on it).
C35_HangoverLastsTimeoutFrames ==
    [][\A w \in Workers :
         LET s == worker[w]
             t == worker'[w]
         IN (/\ s.pc = "fetch" /\ now' # now
             /\ s.speech_detected
             /\ t.last_speech_time = s.last_speech_time
             /\ t.hangover_counter = s.hangover_counter - FrameMs
             /\ now' - s.last_speech_time = FrameMs * SilentFrames(t))
            => /\ SilentFrames(t) <= HangoverFrames
                    => /\ t.speech_detected
                       /\ Active(t)
                       /\ t.iter_log # << >>
                       /\ t.iter_log[1].ev = "recognize"
               /\ SilentFrames(t) > HangoverFrames
                    => /\ ~t.speech_detected
                       /\ ~Active(t)
                       /\ t.iter_log = << >>
                       /\ t.pc = "cond"]_vars

\* the segmenter became Idle on non-speech frame hangover_timeout_ms / 20 + 1,
\* which came 20 ms after the last of the hangover
C35_IdleOnFrameAfterHangover ==
    \E w \in Workers :
        /\ worker[w].pc = "cond"
        /\ worker[w].last_speech_time > 0
        /\ ~worker[w].speech_detected
        /\ SilentFrames(worker[w]) = HangoverFrames + 1
        /\ now - worker[w].last_speech_time = HangoverTimeoutMs + FrameMs
        /\ worker[w].iter_log = << >>

\* C36: whenever a worker's hangover_counter is above 0 its speech_detected is
\* true, so the test of line 299 (speech_detected or hangover_counter > 0) is true
\* exactly when speech_detected is; and a frame without speech that finds the
\* segmenter Idle changes neither speech_detected nor hangover_counter.
C36_CountdownOnlyInSegment ==
    [][\A w \in Workers :
         LET s == worker[w]
             t == worker'[w]
         IN /\ t.hangover_counter > 0 => t.speech_detected
            /\ Active(t) <=> t.speech_detected
            /\ (/\ s.pc = "fetch" /\ now' # now
                /\ ~s.speech_detected
                /\ t.last_speech_time # now')
               => /\ ~t.speech_detected
                  /\ t.hangover_counter = s.hangover_counter
                  /\ t.iter_log = << >>]_vars

\* a frame without speech was taken inside a segment and left the countdown above 0
C36_CountdownRunning ==
    \E w \in Workers :
        /\ worker[w].speech_detected
        /\ worker[w].hangover_counter > 0
        /\ worker[w].hangover_counter < HangoverTimeoutMs
        /\ worker[w].iter_log # << >>
        /\ worker[w].iter_log[1].ev = "recognize"

\* a worker of a session that was not stopped is waiting in the pool's queue or is
\* inside its loop, other than worker w
LaterWorker(w) ==
    \/ queued > 0
    \/ \E v \in Workers \ {w} :
         /\ worker[v].pc \in {"cond", "cond2", "fetch", "output"}
         /\ ~worker[v].cancelled

\* C37: the finally block of a worker never sets is_transcribing to false while the
\* worker of another session is scheduled or running, so is_transcribing stays
\* true for as long as the current session's worker is scheduled or running.
C37_FinallyKeepsLaterSession ==
    [][\A w \in Workers :
         (worker[w].pc = "finally" /\ worker'[w].pc # "finally" /\ LaterWorker(w))
         => is_transcribing' = is_transcribing]_vars

\* C38: a worker that stop_transcription cancelled leaves its loop without raising:
\* when it reads self.audio_stream after stop has set it to None (in the third
\* conjunct of line 269 or in the fetch of line 276), it does not enter the except
\* block, so no handle_error and no transcription-error event follow the stop.
C38_StopRaisesNothing ==
    [][\A w \in Workers :
         (/\ worker[w].cancelled
          /\ worker[w].pc \in {"cond2", "fetch"}
          /\ audio_stream = "none")
         => worker'[w].pc # "except"]_vars

====
